---------------------------- MODULE Spec2Model ----------------------------
(***************************************************************************)
(* A model of tviz's ingestion core: TvizLogger (src/tviz/logger.py)       *)
(* writing runs, steps, rollouts and trajectories to one SQLite store.     *)
(*                                                                         *)
(* The store is modelled twice: db is what the file holds once every       *)
(* committed transaction is applied, tx is what the logger's connection    *)
(* sees (db plus the writes of its open, uncommitted transaction).  Python *)
(* sqlite3 opens a transaction implicitly before the first INSERT/UPDATE   *)
(* and ends it only at conn.commit(); closing the connection or ending the *)
(* process discards it.                                                    *)
(***************************************************************************)
EXTENDS Integers, Sequences, FiniteSets, TLC

VARIABLES
    db,             \* committed content of the store file
    tx,             \* content seen through self._conn (uncommitted writes included)
    conn,           \* self._conn is not None
    config_logged,  \* self._config_logged
    now,            \* the clock CURRENT_TIMESTAMP reads
    alive,          \* the logging process has not crashed
    metrics_arg,    \* the metrics mapping the caller holds (SpecMetrics)
    rollout_arg,    \* the rollout dict the caller holds (SpecRollouts)
    lastCall,       \* history: the last call made and whether it returned
    logged,         \* history: per step, the mapping of the last log_metrics that returned
    calls,          \* history: the log_rollouts calls made (first row id, input, outcome)
    firstClose,     \* history: the end timestamp written by the first close of the run
    returned,       \* history: some log_hparams/log_metrics/log_rollouts call has returned
    schema,         \* the tables, columns and indexes of the store file
    starts,         \* history: the constructors run against the store file, in order
    writers,        \* SpecWriters: per logger instance, its tx, conn and config_logged
    alone,          \* history: per logger instance, where its calls alone would have led
    client          \* SpecClient: a TvizClient, its store file and how it is used

vars == <<db, tx, conn, config_logged, now, alive, metrics_arg, rollout_arg,
          lastCall, logged, calls, firstClose, returned, schema, starts,
          writers, alone, client>>

(***************************************************************************)
(* Bounds of the model.                                                    *)
(***************************************************************************)
MaxTime == 1         \* the clock runs 0..MaxTime
MaxStep == 1         \* step numbers 0..MaxStep
MaxStepWrites == 3   \* at most this many step rows are ever written (ids 1..)
MaxKeys == 3         \* a caller's mapping in SpecMetrics has at most this many keys
MaxRolloutRows == 2  \* at most this many rollout rows are ever written (ids 1..)
MaxTraj == 2         \* a rollout in SpecRollouts has at most this many trajectories
MaxStarts == 4       \* at most this many constructors run in SpecSchema
MaxLen == 2          \* a list-valued field in SpecLists has at most this many elements
MaxWrites == 2       \* two interleaved loggers insert at most this many step and rollout rows
MaxRuns == 2         \* a client starts at most this many runs
MaxClientWrites == 2 \* a client inserts at most this many step and rollout rows

(***************************************************************************)
(* Python scalars.  A number is a reduced fraction n/d; None (SQL NULL) and*)
(* an object that is neither a number nor None (a tensor, an array: not    *)
(* bindable by sqlite3, not serialisable by json) have d = 0.              *)
(***************************************************************************)
RECURSIVE GCD(_, _)
GCD(a, b) == IF b = 0 THEN a ELSE GCD(b, a % b)

Frac(n, d) == [n |-> n \div GCD(n, d), d |-> d \div GCD(n, d)]
Num(i) == [n |-> i, d |-> 1]
None == [n |-> 0, d |-> 0]
PyObject == [n |-> 1, d |-> 0]

IsNumber(v) == v.d > 0
\* bool(v): None and zero are falsy
Truthy(v) == v.n # 0
\* int(v) of a non-negative number truncates
IntOf(v) == Num(v.n \div v.d)

\* A dict is a function from its keys; {} is the function with no key.
EmptyDict == <<>>
DictRemove(data, k) == [x \in DOMAIN data \ {k} |-> data[x]]
Serializable(data) == \A k \in DOMAIN data : data[k] # PyObject

\* `json.dumps(x) if x else None` of a dict: NULL for the empty dict,
\* else the text of the object (kept as the object it denotes).
DumpsDictOrNone(data) ==
    IF DOMAIN data = {} THEN [null |-> TRUE, json |-> EmptyDict]
    ELSE [null |-> FALSE, json |-> data]

(***************************************************************************)
(* The logger's identity and the empty store left by _ensure_schema.       *)
(***************************************************************************)
run_id == "r1"
run_name == run_id
modality == "text"

EmptyStore ==
    [runs |-> {}, steps |-> {}, rollouts |-> {}, trajectories |-> {},
     seq |-> [steps |-> 0, rollouts |-> 0, trajectories |-> 0]]

\* The fields of `self` and of the store the methods read and write.
Self == [db |-> db, tx |-> tx, conn |-> conn, config_logged |-> config_logged,
         schema |-> schema, raised |-> FALSE]

Raise(self) == [self EXCEPT !.raised = TRUE]

_get_conn(self) ==
    IF self.conn THEN self ELSE [self EXCEPT !.conn = TRUE, !.tx = self.db]

commit(self) == [self EXCEPT !.db = self.tx]

(***************************************************************************)
(* The schema: cols maps each table to its columns, indexes names the      *)
(* indexes.  A file that does not exist yet has neither.                   *)
(***************************************************************************)
NoSchema == [cols |-> <<>>, indexes |-> {}]

RunsColumns == {"id", "name", "type", "modality", "config", "started_at", "ended_at"}

RolloutsColumns ==
    {"id", "run_id", "step", "group_idx", "image_path", "gt_lat", "gt_lon", "city",
     "country", "prompt_text", "prompt_tokens", "mean_reward", "best_reward",
     "created_at"}

TrajectoriesColumns ==
    {"id", "rollout_id", "trajectory_idx", "reward", "output_text", "output_tokens",
     "logprobs", "pred_lat", "pred_lon", "distance_km", "step_rewards", "created_at"}

\* the steps table of TvizLogger._ensure_schema
StepsColumns ==
    {"id", "run_id", "step", "reward_mean", "reward_std", "loss", "kl_divergence",
     "entropy", "learning_rate", "ac_tokens_per_turn", "ob_tokens_per_turn",
     "total_ac_tokens", "total_turns", "sampling_time_mean", "time_total",
     "frac_mixed", "frac_all_good", "frac_all_bad", "extras", "created_at"}

\* the steps table of TvizClient._ensure_schema
ClientStepsColumns ==
    {"id", "run_id", "step", "reward_mean", "reward_std", "loss", "kl_divergence",
     "entropy", "learning_rate", "extras", "created_at"}

Indexes ==
    {"idx_steps_run_id", "idx_rollouts_run_id", "idx_rollouts_step",
     "idx_trajectories_rollout"}

\* CREATE TABLE IF NOT EXISTS
CreateTable(sch, table, columns) ==
    IF table \in DOMAIN sch.cols THEN sch
    ELSE [sch EXCEPT !.cols = (table :> columns) @@ @]

\* CREATE INDEX IF NOT EXISTS, for every index of the script
CreateIndexes(sch) == [sch EXCEPT !.indexes = @ \cup Indexes]

\* ALTER TABLE steps ADD COLUMN: raises sqlite3.OperationalError "duplicate
\* column name" when the column is there; else it has to write, and raises
\* sqlite3.OperationalError "database is locked" when another connection
\* holds the write lock for the length of the timeout
AddStepColumn(sch, column, locked) ==
    IF column \in sch.cols["steps"]
    THEN [error |-> "duplicate column name", sch |-> sch]
    ELSE IF locked THEN [error |-> "database is locked", sch |-> sch]
    ELSE [error |-> "", sch |-> [sch EXCEPT !.cols["steps"] = @ \cup {column}]]

\* the columns _ensure_step_columns adds, in order
MigratedColumns == <<"sampling_time_mean", "time_total">>

\* no connection holds the write lock during any ALTER TABLE
Unlocked == [i \in 1..Len(MigratedColumns) |-> FALSE]

\* mutant: every sqlite3.OperationalError of the ALTER TABLE is passed over
_ensure_step_columns_swallowing(sch, i, locks) ==
    [sch |-> LET Add(x, j) == AddStepColumn(x, MigratedColumns[j], locks[j]).sch
             IN  Add(Add(sch, 1), 2),
     error |-> ""]

\* the loop of _ensure_step_columns from the i-th column on; locks[i] says
\* that the write lock is held during the i-th ALTER TABLE.  A duplicate
\* column is passed over; any other error is raised again and ends the loop.
\* (Each ALTER TABLE is its own transaction: a column added stays added.)
RECURSIVE _ensure_step_columns(_, _, _)
_ensure_step_columns(sch, i, locks) ==
    IF i > Len(MigratedColumns) THEN [sch |-> sch, error |-> ""]
    ELSE LET a == AddStepColumn(sch, MigratedColumns[i], locks[i])
         IN  IF a.error # "" /\ a.error # "duplicate column name"
             THEN [sch |-> a.sch, error |-> a.error]
             ELSE _ensure_step_columns(a.sch, i + 1, locks)

\* TvizLogger._ensure_schema: the script, then the migrations
_ensure_schema(sch, locks) ==
    LET s1 == CreateTable(sch, "runs", RunsColumns)
        s2 == CreateTable(s1, "steps", StepsColumns)
        s3 == CreateTable(s2, "rollouts", RolloutsColumns)
        s4 == CreateTable(s3, "trajectories", TrajectoriesColumns)
    IN  _ensure_step_columns(CreateIndexes(s4), 1, locks)

\* TvizClient._ensure_schema
TvizClient_ensure_schema(sch) ==
    LET s1 == CreateTable(sch, "runs", RunsColumns)
        s2 == CreateTable(s1, "steps", ClientStepsColumns)
        s3 == CreateTable(s2, "rollouts", RolloutsColumns)
        s4 == CreateTable(s3, "trajectories", TrajectoriesColumns)
    IN  CreateIndexes(s4)

(***************************************************************************)
(* log_hparams                                                             *)
(***************************************************************************)
RunRow(config) ==
    [id |-> run_id, name |-> run_name, type |-> "rl", modality |-> modality,
     config |-> DumpsDictOrNone(config), started_at |-> Num(now), ended_at |-> None]

\* INSERT INTO runs: id is the PRIMARY KEY
InsertRun(t, row) ==
    IF \E r \in t.runs : r.id = row.id
    THEN [ok |-> FALSE, t |-> t]
    ELSE [ok |-> TRUE, t |-> [t EXCEPT !.runs = @ \cup {row}]]

\* mutant: no _config_logged guard, INSERT OR REPLACE
log_hparams_replacing(self, config) ==
    LET s1 == _get_conn(self)
    IN  IF ~Serializable(config) THEN Raise(s1)
        ELSE [commit([s1 EXCEPT !.tx.runs = {r \in @ : r.id # run_id}
                                              \cup {RunRow(config)}])
              EXCEPT !.config_logged = TRUE]

log_hparams(self, config) ==
    IF self.config_logged THEN self
    ELSE LET s1 == _get_conn(self)
             ins == InsertRun(s1.tx, RunRow(config))
         IN  IF ~Serializable(config) THEN Raise(s1)
             ELSE IF ~ins.ok THEN Raise(s1)
             ELSE [commit([s1 EXCEPT !.tx = ins.t]) EXCEPT !.config_logged = TRUE]

(***************************************************************************)
(* log_metrics: the normaliser                                             *)
(***************************************************************************)
Prefixes == <<"env/all/", "optim/", "by_group/">>

\* mutant: "correct" read as one more name of the reward
FieldsCorrectAsReward == <<
    [col |-> "reward_mean",
     keys |-> <<"reward_mean", "reward", "reward/total", "correct">>],
    [col |-> "reward_std", keys |-> <<"reward_std">>],
    [col |-> "loss", keys |-> <<"loss">>],
    [col |-> "kl_divergence",
     keys |-> <<"kl_divergence", "kl", "kl_sample_train", "kl_sample_train_v1">>],
    [col |-> "entropy", keys |-> <<"entropy">>],
    [col |-> "learning_rate", keys |-> <<"learning_rate", "lr">>],
    [col |-> "ac_tokens_per_turn", keys |-> <<"ac_tokens_per_turn">>],
    [col |-> "ob_tokens_per_turn", keys |-> <<"ob_tokens_per_turn">>],
    [col |-> "total_ac_tokens", keys |-> <<"total_ac_tokens">>],
    [col |-> "total_turns", keys |-> <<"total_turns">>],
    [col |-> "sampling_time_mean",
     keys |-> <<"time/sampling_time_mean", "sampling_time_mean">>],
    [col |-> "time_total", keys |-> <<"time/total", "time_total">>],
    [col |-> "frac_mixed", keys |-> <<"frac_mixed">>],
    [col |-> "frac_all_good", keys |-> <<"frac_all_good">>],
    [col |-> "frac_all_bad", keys |-> <<"frac_all_bad">>] >>

\* the canonical columns in the order log_metrics extracts them, each with
\* the keys pop_metric is given
Fields == <<
    [col |-> "reward_mean", keys |-> <<"reward_mean", "reward", "reward/total">>],
    [col |-> "reward_std", keys |-> <<"reward_std">>],
    [col |-> "loss", keys |-> <<"loss">>],
    [col |-> "kl_divergence",
     keys |-> <<"kl_divergence", "kl", "kl_sample_train", "kl_sample_train_v1">>],
    [col |-> "entropy", keys |-> <<"entropy">>],
    [col |-> "learning_rate", keys |-> <<"learning_rate", "lr">>],
    [col |-> "ac_tokens_per_turn", keys |-> <<"ac_tokens_per_turn">>],
    [col |-> "ob_tokens_per_turn", keys |-> <<"ob_tokens_per_turn">>],
    [col |-> "total_ac_tokens", keys |-> <<"total_ac_tokens">>],
    [col |-> "total_turns", keys |-> <<"total_turns">>],
    [col |-> "sampling_time_mean",
     keys |-> <<"time/sampling_time_mean", "sampling_time_mean">>],
    [col |-> "time_total", keys |-> <<"time/total", "time_total">>],
    [col |-> "frac_mixed", keys |-> <<"frac_mixed">>],
    [col |-> "frac_all_good", keys |-> <<"frac_all_good">>],
    [col |-> "frac_all_bad", keys |-> <<"frac_all_bad">>] >>

Columns == {Fields[i].col : i \in 1..Len(Fields)}
IntColumns == {"total_ac_tokens", "total_turns"}

\* the first prefix (from the i-th on) under which key is in data, as a set
RECURSIVE FirstPrefixed(_, _, _)
FirstPrefixed(data, key, i) ==
    IF i > Len(Prefixes) THEN {}
    ELSE IF (Prefixes[i] \o key) \in DOMAIN data THEN {Prefixes[i] \o key}
    ELSE FirstPrefixed(data, key, i + 1)

\* mutant: every bare key is tried before any prefixed one
FirstMatchBareFirst(data, keys, j) ==
    LET bare == {i \in j..Len(keys) : keys[i] \in DOMAIN data}
        prefixed == {i \in j..Len(keys) : FirstPrefixed(data, keys[i], 1) # {}}
        Least(S) == CHOOSE i \in S : \A k \in S : i <= k
    IN  IF bare # {} THEN {keys[Least(bare)]}
        ELSE IF prefixed # {} THEN FirstPrefixed(data, keys[Least(prefixed)], 1)
        ELSE {}

\* the key pop_metric removes for keys[j..], as a set (empty: no match)
RECURSIVE FirstMatch(_, _, _)
FirstMatch(data, keys, j) ==
    IF j > Len(keys) THEN {}
    ELSE IF keys[j] \in DOMAIN data THEN {keys[j]}
    ELSE IF FirstPrefixed(data, keys[j], 1) # {} THEN FirstPrefixed(data, keys[j], 1)
    ELSE FirstMatch(data, keys, j + 1)

\* mutant: data[k] read where data.pop(k) is meant
pop_metric_keeping(data, keys) ==
    LET hit == FirstMatch(data, keys, 1)
    IN  IF hit = {} THEN [value |-> None, data |-> data]
        ELSE LET k == CHOOSE k \in hit : TRUE
             IN  [value |-> data[k], data |-> data]

pop_metric(data, keys) ==
    LET hit == FirstMatch(data, keys, 1)
    IN  IF hit = {} THEN [value |-> None, data |-> data]
        ELSE LET k == CHOOSE k \in hit : TRUE
             IN  [value |-> data[k], data |-> DictRemove(data, k)]

\* the pops of lines 193-211 in order, threading the working copy `data`
RECURSIVE Extract(_, _, _)
Extract(data, cols, i) ==
    IF i > Len(Fields) THEN [cols |-> cols, data |-> data]
    ELSE LET p == pop_metric(data, Fields[i].keys)
         IN  Extract(p.data, cols @@ (Fields[i].col :> p.value), i + 1)

Normalize(metrics) == Extract(metrics, <<>>, 1)

\* mutant: data = metrics, the pops work on the caller's own mapping
DataObjectAliased == "caller"

\* `data = dict(metrics)`: the name data refers to a new object, a copy
DataObject == "copy"

\* the caller's mapping after a call that reached the pops: the objects are
\* the caller's mapping and the copy, and the pops remove keys from the one
\* that data refers to
MetricsAfterPops(metrics) ==
    LET objects == [caller |-> metrics, copy |-> metrics]
        popped == [objects EXCEPT ![DataObject] = Normalize(objects[DataObject]).data]
    IN  popped.caller

\* mutant: int(v) if v is not None else None
IntOrNoneKeepingZero(v) == IF v = None THEN None ELSE IntOf(v)

\* `int(v) if v else None`
IntOrNone(v) == IF Truthy(v) THEN IntOf(v) ELSE None

\* the parameters of the INSERT OR REPLACE, without run_id and step
NormalizedValues(metrics) ==
    LET norm == Normalize(metrics)
    IN  [c \in Columns |-> IF c \in IntColumns THEN IntOrNone(norm.cols[c])
                           ELSE norm.cols[c]]
        @@ [extras |-> DumpsDictOrNone(norm.data)]

(***************************************************************************)
(* The mappings callers pass to log_metrics.                               *)
(***************************************************************************)
\* the mappings SpecSteps logs: two that share no key, and the empty one
StepMetrics ==
    { [reward_mean |-> Num(1), custom_y |-> Num(2)],
      [loss |-> Frac(1, 5), custom_x |-> Num(1)],
      EmptyDict }

\* the mappings the lifecycle specification logs: one that is stored, one
\* holding a value that cannot be stored
LifeMetrics ==
    { [reward_mean |-> Num(1), custom_y |-> Num(2)],
      [custom_x |-> PyObject] }

\* the keys and values of the mappings SpecMetrics draws
MetricKeys ==
    {"reward_mean", "env/all/reward_mean", "optim/reward_mean", "reward", "loss",
     "optim/lr", "custom_x", "env/all/correct", "total_turns"}
MetricValues == {Num(0), Frac(1, 5), Frac(1, 2), Num(1)}

\* every mapping of at most MaxKeys keys whose values are pairwise distinct
\* (so that a stored value tells which key it came from)
RichMetrics ==
    UNION { {m \in [ks -> MetricValues] : \A a, b \in ks : a # b => m[a] # m[b]}
            : ks \in {x \in SUBSET MetricKeys : Cardinality(x) <= MaxKeys} }

\* the mappings SpecIntegral draws: token and turn counts, whole and not,
\* beside a loss
IntegralKeys == {"total_ac_tokens", "total_turns", "loss"}
IntegralValues == {Num(0), Frac(1, 2), Num(2), Frac(5, 2)}
IntegralMetrics == UNION {[ks -> IntegralValues] : ks \in SUBSET IntegralKeys}

\* the mappings SpecCaller draws: canonical keys, bare and prefixed, beside
\* an overflow key
CallerKeys == {"reward", "env/all/loss", "custom_x"}
CallerValues == {Num(0), Frac(1, 2), Num(2)}
CallerMetrics == UNION {[ks -> CallerValues] : ks \in SUBSET CallerKeys}

\* NormalizedValues, tabulated once over the mappings that reach the INSERT
\* (@@ makes the table an explicit function)
ValuesTable ==
    [m \in {x \in LifeMetrics \cup StepMetrics \cup RichMetrics \cup IntegralMetrics
                     \cup CallerMetrics :
                Serializable(x)}
       |-> NormalizedValues(m)] @@ <<>>

StepValues(metrics) == ValuesTable[metrics]

\* mutant: an upsert that keeps what the new row leaves unset
\* (ON CONFLICT DO UPDATE SET c = COALESCE(new.c, c), extras merged)
ReplaceStepMerging(t, step, values) ==
    LET old == {r \in t.steps : r.run_id = run_id /\ r.step = step}
        keep(c) == IF old = {} THEN values[c]
                   ELSE LET o == CHOOSE r \in old : TRUE
                        IN  IF c = "extras"
                            THEN [null |-> o.extras.null /\ values.extras.null,
                                  json |-> values.extras.json @@ o.extras.json]
                            ELSE IF values[c] = None THEN o[c] ELSE values[c]
    IN  [t EXCEPT
           !.steps = (@ \ old)
                     \cup {[id |-> t.seq.steps + 1, run_id |-> run_id, step |-> step]
                           @@ [c \in DOMAIN values |-> keep(c)]},
           !.seq.steps = @ + 1]

\* mutant: a steps table without UNIQUE(run_id, step)
ReplaceStepNoUnique(t, step, values) ==
    [t EXCEPT
       !.steps = @ \cup {[id |-> t.seq.steps + 1, run_id |-> run_id, step |-> step]
                         @@ values},
       !.seq.steps = @ + 1]

\* INSERT OR REPLACE INTO steps: UNIQUE(run_id, step), id AUTOINCREMENT
ReplaceStep(t, step, values) ==
    [t EXCEPT
       !.steps = {r \in @ : ~(r.run_id = run_id /\ r.step = step)}
                 \cup {[id |-> t.seq.steps + 1, run_id |-> run_id, step |-> step]
                       @@ values},
       !.seq.steps = @ + 1]

\* the columns the INSERT OR REPLACE of log_metrics names
StepInsertColumns == {"run_id", "step", "extras"} \cup Columns

\* mutant: no auto-registration
auto_register_skipped(self) == self

\* mutant: logging before log_hparams is an error
auto_register_strict(self) == IF ~self.config_logged THEN Raise(self) ELSE self

\* `if not self._config_logged: self.log_hparams({})`
auto_register(self) ==
    IF ~self.config_logged THEN log_hparams(self, EmptyDict) ELSE self

\* mutant: no `if step is None: return`, the row is written with a NULL step
log_metrics_writing_null_step(self, metrics, step) ==
    LET s1 == auto_register(self)
        s2 == _get_conn(s1)
    IN  IF s1.raised THEN s1
        ELSE IF ~Serializable(metrics) THEN Raise(s2)
        ELSE commit([s2 EXCEPT !.tx = ReplaceStep(s2.tx, step, StepValues(metrics))])

log_metrics(self, metrics, step) ==
    LET s1 == auto_register(self)
        s2 == _get_conn(s1)
    IN  IF s1.raised THEN s1
        ELSE IF step = None THEN s1
        ELSE IF ~Serializable(metrics) THEN Raise(s2)
        ELSE IF ~(StepInsertColumns \subseteq s2.schema.cols["steps"]) THEN Raise(s2)
        ELSE commit([s2 EXCEPT !.tx = ReplaceStep(s2.tx, step, StepValues(metrics))])

(***************************************************************************)
(* log_rollouts                                                            *)
(***************************************************************************)
\* d.get(k, default)
Get(d, k, default) == IF k \in DOMAIN d THEN d[k] ELSE default

\* an optional text: <<>> is None
NoText == <<>>
Text(s) == <<s>>

\* a list-valued field: None, a Python list, or an array object (numpy, torch)
\* whose truth value or json.dumps raises
NoneList == [kind |-> "none", items |-> <<>>]
List(items) == [kind |-> "list", items |-> items]
Array(items) == [kind |-> "array", items |-> items]
CanDump(x) == x.kind # "array"

\* JSON text is the sequence of its characters
DigitChar == <<"0", "1", "2", "3", "4", "5", "6", "7", "8", "9">>

\* the decimal digits of a natural number
RECURSIVE Digits(_)
Digits(n) ==
    IF n < 10 THEN <<DigitChar[n + 1]>>
    ELSE Digits(n \div 10) \o <<DigitChar[(n % 10) + 1]>>

\* the text json.dumps gives a number (numbers of at most one decimal place)
NumberText(v) ==
    LET tenths == (v.n * 10) \div v.d
        a == IF tenths < 0 THEN 0 - tenths ELSE tenths
    IN  (IF tenths < 0 THEN <<"-">> ELSE <<>>)
        \o Digits(a \div 10)
        \o (IF v.d = 1 THEN <<>> ELSE <<".", DigitChar[(a % 10) + 1]>>)

\* the elements from the i-th on, separated by ", "
RECURSIVE JoinNumbers(_, _)
JoinNumbers(items, i) ==
    IF i > Len(items) THEN <<>>
    ELSE NumberText(items[i])
         \o (IF i < Len(items) THEN <<",", " ">> ELSE <<>>)
         \o JoinNumbers(items, i + 1)

\* json.dumps of a list of numbers
json_dumps(items) == <<"[">> \o JoinNumbers(items, 1) \o <<"]">>

\* `json.dumps(x) if x else None` of a list-valued field
DumpsListOrNone(x) ==
    IF x.kind = "list" /\ x.items # <<>>
    THEN [null |-> FALSE, json |-> json_dumps(x.items)]
    ELSE [null |-> TRUE, json |-> <<>>]

AddFrac(a, b) == Frac(a.n * b.d + b.n * a.d, a.d * b.d)
LessFrac(a, b) == a.n * b.d < b.n * a.d

RECURSIVE SumFrom(_, _)
SumFrom(rewards, i) ==
    IF i > Len(rewards) THEN Num(0) ELSE AddFrac(rewards[i], SumFrom(rewards, i + 1))

\* sum(rewards) / len(rewards) if rewards else None
MeanReward(rewards) ==
    IF rewards = <<>> THEN None
    ELSE LET total == SumFrom(rewards, 1)
         IN  Frac(total.n, total.d * Len(rewards))

\* max(rewards) if rewards else None
BestReward(rewards) ==
    IF rewards = <<>> THEN None
    ELSE CHOOSE r \in {rewards[i] : i \in 1..Len(rewards)} :
            \A i \in 1..Len(rewards) : ~LessFrac(r, rewards[i])

\* mutant: t.get("reward"), no default
RewardsNoDefault(trajectories) ==
    [i \in 1..Len(trajectories) |-> Get(trajectories[i], "reward", None)]

\* [t.get("reward", 0) for t in trajectories]
Rewards(trajectories) ==
    [i \in 1..Len(trajectories) |-> Get(trajectories[i], "reward", Num(0))]

\* mutant: the aggregates the caller put in the rollout dict
RolloutRowCallerStats(t, rollout, step) ==
    [id |-> t.seq.rollouts + 1,
     run_id |-> run_id,
     step |-> step,
     group_idx |-> Get(rollout, "group_idx", Num(0)),
     image_path |-> Get(rollout, "image_path", NoText),
     gt_lat |-> Get(rollout, "gt_lat", None),
     gt_lon |-> Get(rollout, "gt_lon", None),
     city |-> Get(rollout, "city", NoText),
     country |-> Get(rollout, "country", NoText),
     prompt_text |-> Get(rollout, "prompt_text", NoText),
     prompt_tokens |-> DumpsListOrNone(Get(rollout, "prompt_tokens", NoneList)),
     mean_reward |-> Get(rollout, "mean_reward", None),
     best_reward |-> Get(rollout, "best_reward", None)]

RolloutRow(t, rollout, step) ==
    LET rewards == Rewards(Get(rollout, "trajectories", <<>>))
    IN  [id |-> t.seq.rollouts + 1,
         run_id |-> run_id,
         step |-> step,
         group_idx |-> Get(rollout, "group_idx", Num(0)),
         image_path |-> Get(rollout, "image_path", NoText),
         gt_lat |-> Get(rollout, "gt_lat", None),
         gt_lon |-> Get(rollout, "gt_lon", None),
         city |-> Get(rollout, "city", NoText),
         country |-> Get(rollout, "country", NoText),
         prompt_text |-> Get(rollout, "prompt_text", NoText),
         prompt_tokens |-> DumpsListOrNone(Get(rollout, "prompt_tokens", NoneList)),
         mean_reward |-> MeanReward(rewards),
         best_reward |-> BestReward(rewards)]

\* mutant: the id the next rollout will get, not cursor.lastrowid
TrajectoryRowNextId(t, rollout_id, traj) ==
    [id |-> t.seq.trajectories + 1,
     rollout_id |-> t.seq.rollouts + 1,
     trajectory_idx |-> Get(traj, "trajectory_idx", Num(0)),
     reward |-> Get(traj, "reward", Num(0)),
     output_text |-> Get(traj, "output_text", NoText),
     output_tokens |-> DumpsListOrNone(Get(traj, "output_tokens", NoneList)),
     logprobs |-> DumpsListOrNone(Get(traj, "logprobs", NoneList)),
     pred_lat |-> Get(traj, "pred_lat", None),
     pred_lon |-> Get(traj, "pred_lon", None),
     distance_km |-> Get(traj, "distance_km", None),
     step_rewards |-> DumpsListOrNone(Get(traj, "step_rewards", NoneList))]

TrajectoryRow(t, rollout_id, traj) ==
    [id |-> t.seq.trajectories + 1,
     rollout_id |-> rollout_id,
     trajectory_idx |-> Get(traj, "trajectory_idx", Num(0)),
     reward |-> Get(traj, "reward", Num(0)),
     output_text |-> Get(traj, "output_text", NoText),
     output_tokens |-> DumpsListOrNone(Get(traj, "output_tokens", NoneList)),
     logprobs |-> DumpsListOrNone(Get(traj, "logprobs", NoneList)),
     pred_lat |-> Get(traj, "pred_lat", None),
     pred_lon |-> Get(traj, "pred_lon", None),
     distance_km |-> Get(traj, "distance_km", None),
     step_rewards |-> DumpsListOrNone(Get(traj, "step_rewards", NoneList))]

\* building the parameters of the trajectory INSERT raises
TrajectoryRaises(traj) ==
    \/ ~CanDump(Get(traj, "output_tokens", NoneList))
    \/ ~CanDump(Get(traj, "logprobs", NoneList))
    \/ ~CanDump(Get(traj, "step_rewards", NoneList))

\* sum(rewards) or building the parameters of the rollout INSERT raises
RolloutRaises(rollout) ==
    LET rewards == Rewards(Get(rollout, "trajectories", <<>>))
    IN  \/ \E i \in 1..Len(rewards) : ~IsNumber(rewards[i])
        \/ ~CanDump(Get(rollout, "prompt_tokens", NoneList))

\* the inner loop, from the j-th trajectory on; r is [ok, t]
RECURSIVE InsertTrajectories(_, _, _, _)
InsertTrajectories(r, rollout_id, trajectories, j) ==
    IF j > Len(trajectories) THEN r
    ELSE IF TrajectoryRaises(trajectories[j]) THEN [r EXCEPT !.ok = FALSE]
    ELSE InsertTrajectories(
            [r EXCEPT !.t.trajectories =
                          @ \cup {TrajectoryRow(r.t, rollout_id, trajectories[j])},
                      !.t.seq.trajectories = @ + 1],
            rollout_id, trajectories, j + 1)

\* mutant: a rollout without trajectories is passed over
RECURSIVE InsertRolloutsSkippingEmpty(_, _, _, _)
InsertRolloutsSkippingEmpty(r, rollouts, step, i) ==
    IF i > Len(rollouts) THEN r
    ELSE IF Get(rollouts[i], "trajectories", <<>>) = <<>>
         THEN InsertRolloutsSkippingEmpty(r, rollouts, step, i + 1)
    ELSE IF RolloutRaises(rollouts[i]) THEN [r EXCEPT !.ok = FALSE]
    ELSE LET row == RolloutRow(r.t, rollouts[i], step)
             r1 == [r EXCEPT !.t.rollouts = @ \cup {row}, !.t.seq.rollouts = @ + 1]
             r2 == InsertTrajectories(r1, row.id,
                                      Get(rollouts[i], "trajectories", <<>>), 1)
         IN  IF r2.ok THEN InsertRolloutsSkippingEmpty(r2, rollouts, step, i + 1)
             ELSE r2

\* the outer loop, from the i-th rollout on; stops at the first exception
RECURSIVE InsertRollouts(_, _, _, _)
InsertRollouts(r, rollouts, step, i) ==
    IF i > Len(rollouts) THEN r
    ELSE IF RolloutRaises(rollouts[i]) THEN [r EXCEPT !.ok = FALSE]
    ELSE LET row == RolloutRow(r.t, rollouts[i], step)
             r1 == [r EXCEPT !.t.rollouts = @ \cup {row}, !.t.seq.rollouts = @ + 1]
             r2 == InsertTrajectories(r1, row.id,
                                      Get(rollouts[i], "trajectories", <<>>), 1)
         IN  IF r2.ok THEN InsertRollouts(r2, rollouts, step, i + 1) ELSE r2

\* mutant: the rollouts of the step are replaced (DELETE ... WHERE run_id = ?
\* AND step = ?, trajectories with them, before the inserts)
log_rollouts_replacing(self, rollouts, step) ==
    LET s1 == auto_register(self)
        s2 == _get_conn(s1)
        old == {r.id : r \in {q \in s2.tx.rollouts : q.run_id = run_id /\ q.step = step}}
        t0 == [s2.tx EXCEPT !.rollouts = {r \in @ : r.id \notin old},
                            !.trajectories = {x \in @ : x.rollout_id \notin old}]
        r == InsertRollouts([ok |-> TRUE, t |-> t0], rollouts, step, 1)
    IN  IF s1.raised THEN s1
        ELSE IF r.ok THEN commit([s2 EXCEPT !.tx = r.t])
        ELSE Raise([s2 EXCEPT !.tx = r.t])

log_rollouts(self, rollouts, step) ==
    LET s1 == auto_register(self)
        s2 == _get_conn(s1)
        r == InsertRollouts([ok |-> TRUE, t |-> s2.tx], rollouts, step, 1)
    IN  IF s1.raised THEN s1
        ELSE IF r.ok THEN commit([s2 EXCEPT !.tx = r.t])
        ELSE Raise([s2 EXCEPT !.tx = r.t])

(***************************************************************************)
(* close                                                                   *)
(***************************************************************************)
\* UPDATE runs SET ended_at = CURRENT_TIMESTAMP WHERE id = ?
EndRun(t) ==
    [t EXCEPT !.runs = {IF r.id = run_id THEN [r EXCEPT !.ended_at = Num(now)] ELSE r
                        : r \in @}]

\* mutant: no `self._conn is not None` guard
close_unguarded(self) ==
    LET s0 == _get_conn(self)
        s1 == commit([s0 EXCEPT !.tx = EndRun(s0.tx)])
    IN  [s1 EXCEPT !.conn = FALSE]

close(self) ==
    IF self.conn
    THEN LET s1 == commit([self EXCEPT !.tx = EndRun(self.tx)])
         IN  [s1 EXCEPT !.conn = FALSE]
    ELSE self

(***************************************************************************)
(* Inputs                                                                  *)
(***************************************************************************)
Steps == {Num(i) : i \in 0..MaxStep}
StepArgs == Steps \cup {None}

ConfigInputs == {EmptyDict, [lr |-> Num(1)], [model |-> PyObject]}

\* trajectories: a plain one, one without the reward field, one whose reward
\* is None, one whose logprobs are an array
GoodTraj(i, r) == [trajectory_idx |-> Num(i), reward |-> Num(r)]
NoRewardTraj(i) == [trajectory_idx |-> Num(i)]
NoneRewardTraj(i) == [trajectory_idx |-> Num(i), reward |-> None]
ArrayTraj(i) ==
    [trajectory_idx |-> Num(i), reward |-> Num(1), logprobs |-> Array(<<Num(1)>>)]

\* the rollouts the lifecycle specification logs
GoodRollout ==
    [group_idx |-> Num(0), prompt_text |-> Text("Q"),
     trajectories |-> <<GoodTraj(0, 1), GoodTraj(1, 0)>>]
EmptyRollout == [group_idx |-> Num(0), trajectories |-> <<>>]
HalfRollout ==
    [group_idx |-> Num(1), prompt_text |-> Text("Q"),
     trajectories |-> <<GoodTraj(0, 1), ArrayTraj(1)>>]
BadRewardRollout ==
    [group_idx |-> Num(1), trajectories |-> <<NoneRewardTraj(0)>>]

\* the trajectories SpecRollouts draws: rewards 0, 1, 2, no reward field, a
\* None reward, array logprobs
RichTrajs(i) ==
    {GoodTraj(i, r) : r \in 0..2} \cup {NoRewardTraj(i), NoneRewardTraj(i), ArrayTraj(i)}

\* every list of at most MaxTraj of them, the i-th with trajectory_idx i - 1
TrajLists ==
    UNION { {l \in [1..n -> RichTrajs(0) \cup RichTrajs(1) \cup RichTrajs(2)
                            \cup RichTrajs(3)] :
                \A i \in 1..n : l[i].trajectory_idx = Num(i - 1)}
            : n \in 0..MaxTraj }

\* the rollouts SpecRollouts draws: every such list, alone or beside
\* mean_reward/best_reward keys of the caller's, and a dict with no
\* trajectories key
RichRollouts ==
    {[group_idx |-> Num(0), prompt_text |-> Text("Q"), trajectories |-> l]
        : l \in TrajLists}
    \cup {[group_idx |-> Num(0), prompt_text |-> Text("Q"), trajectories |-> l,
           mean_reward |-> Num(7), best_reward |-> Num(9)] : l \in TrajLists}
    \cup {[group_idx |-> Num(0), image_path |-> Text("a.png")]}

\* the elements and the lists SpecLists draws for a list-valued field
ListElems == {Num(0), Num(12), Frac(0 - 1, 2)}
Lists == UNION {[1..n -> ListElems] : n \in 0..MaxLen}
ListFields == {"prompt_tokens", "output_tokens", "logprobs", "step_rewards"}

\* a rollout of one trajectory that carries list l in field f
RolloutWithList(f, l) ==
    IF f = "prompt_tokens"
    THEN [group_idx |-> Num(0), prompt_text |-> Text("Q"), prompt_tokens |-> List(l),
          trajectories |-> <<GoodTraj(0, 1)>>]
    ELSE [group_idx |-> Num(0), prompt_text |-> Text("Q"),
          trajectories |-> <<(f :> List(l)) @@ GoodTraj(0, 1)>>]

ListRollouts == {RolloutWithList(f, l) : f \in ListFields, l \in Lists}

\* the batches the lifecycle specification logs
LifeBatches == {<<GoodRollout>>, <<HalfRollout>>}

(***************************************************************************)
(* TvizClient (src/tviz/client.py).  `c` holds the fields of the client    *)
(* and its store file: db is the committed content, tx the content seen    *)
(* through self._conn, conn says self._conn is not None, run_id is         *)
(* self.run_id, uuids counts the ids uuid4 has produced, raised names the  *)
(* exception the last call raised.                                         *)
(***************************************************************************)
NoRun == 0              \* self.run_id is None
NoError == "none"       \* the call returned
Modalities == {"text", "vision"}

\* TvizClient.__init__: no run, the connection _ensure_schema opened
NewClient ==
    [db |-> EmptyStore, tx |-> EmptyStore, conn |-> TRUE, run_id |-> NoRun,
     uuids |-> 0, raised |-> NoError]

RaiseAs(c, e) == [c EXCEPT !.raised = e]

TvizClient_get_conn(c) ==
    IF c.conn THEN c ELSE [c EXCEPT !.conn = TRUE, !.tx = c.db]

ClientRunRow(id, name, config, m) ==
    [id |-> id, name |-> name, type |-> "rl", modality |-> m,
     config |-> DumpsDictOrNone(config), started_at |-> Num(now), ended_at |-> None]

\* start_run: Modality(modality) raises ValueError first; self.run_id is
\* assigned a fresh id (uuid4, the k-th id is k) before the parameters of the
\* INSERT are built, so json.dumps raising leaves the new id in self.run_id
start_run(c, name, config, m) ==
    IF m \notin Modalities THEN RaiseAs(c, "ValueError")
    ELSE LET c1 == TvizClient_get_conn([c EXCEPT !.run_id = c.uuids + 1,
                                                 !.uuids = @ + 1])
         IN  IF ~Serializable(config) THEN RaiseAs(c1, "TypeError")
             ELSE commit([c1 EXCEPT !.tx.runs =
                              @ \cup {ClientRunRow(c1.run_id, name, config, m)}])

\* the keys log_step pops from the mapping
ClientKnown ==
    {"reward_mean", "reward_std", "loss", "kl_divergence", "kl", "entropy",
     "learning_rate", "lr", "extras"}

\* the metric columns of the client's INSERT OR REPLACE
ClientColumns ==
    {"reward_mean", "reward_std", "loss", "kl_divergence", "entropy", "learning_rate"}

\* data.pop(key, data.pop(alias, None))
PopEither(data, key, alias) == Get(data, key, Get(data, alias, None))

\* what is left of the mapping after the pops: extras.update(data)
ClientExtras(metrics) == [k \in DOMAIN metrics \ ClientKnown |-> metrics[k]]

ClientStepValues(metrics) ==
    [reward_mean |-> Get(metrics, "reward_mean", None),
     reward_std |-> Get(metrics, "reward_std", None),
     loss |-> Get(metrics, "loss", None),
     kl_divergence |-> PopEither(metrics, "kl_divergence", "kl"),
     entropy |-> Get(metrics, "entropy", None),
     learning_rate |-> PopEither(metrics, "learning_rate", "lr"),
     extras |-> DumpsDictOrNone(ClientExtras(metrics))]

\* INSERT OR REPLACE INTO steps under UNIQUE(run_id, step)
ClientReplaceStep(t, run, step, values) ==
    [t EXCEPT
       !.steps = {r \in @ : ~(r.run_id = run /\ r.step = step)}
                 \cup {[id |-> t.seq.steps + 1, run_id |-> run, step |-> step]
                       @@ values},
       !.seq.steps = @ + 1]

\* mutant: no check of self.run_id
log_step_unguarded(c, step, metrics) ==
    LET c1 == TvizClient_get_conn(c)
    IN  IF ~Serializable(metrics) THEN RaiseAs(c1, "TypeError")
        ELSE commit([c1 EXCEPT !.tx = ClientReplaceStep(c1.tx, c1.run_id, step,
                                                        ClientStepValues(metrics))])

\* log_step: metric values here are numbers, so an "extras" entry is not a
\* dict and extras.update raises AttributeError; json.dumps(extras) raises
\* TypeError; an object bound to a column raises sqlite3.ProgrammingError;
\* step is NOT NULL
log_step(c, step, metrics) ==
    IF c.run_id = NoRun THEN RaiseAs(c, "RuntimeError")
    ELSE IF "extras" \in DOMAIN metrics THEN RaiseAs(c, "AttributeError")
    ELSE LET c1 == TvizClient_get_conn(c)
             values == ClientStepValues(metrics)
         IN  IF ~Serializable(ClientExtras(metrics)) THEN RaiseAs(c1, "TypeError")
             ELSE IF \E k \in ClientColumns : values[k] = PyObject
                  THEN RaiseAs(c1, "sqlite3.ProgrammingError")
             ELSE IF step = None THEN RaiseAs(c1, "sqlite3.IntegrityError")
             ELSE commit([c1 EXCEPT !.tx = ClientReplaceStep(c1.tx, c1.run_id, step,
                                                             values)])

\* the rollout row of log_rollout: the aggregates are the caller's
ClientRolloutRow(t, run, rollout, step) ==
    [id |-> t.seq.rollouts + 1,
     run_id |-> run,
     step |-> step,
     group_idx |-> Get(rollout, "group_idx", Num(0)),
     image_path |-> Get(rollout, "image_path", NoText),
     gt_lat |-> Get(rollout, "gt_lat", None),
     gt_lon |-> Get(rollout, "gt_lon", None),
     city |-> Get(rollout, "city", NoText),
     country |-> Get(rollout, "country", NoText),
     prompt_text |-> Get(rollout, "prompt_text", NoText),
     prompt_tokens |-> DumpsListOrNone(Get(rollout, "prompt_tokens", NoneList)),
     mean_reward |-> Get(rollout, "mean_reward", None),
     best_reward |-> Get(rollout, "best_reward", None)]

\* the loop of log_rollout from the i-th rollout on; r is [ok, t]; stops at
\* the first exception
RECURSIVE ClientInsertRollouts(_, _, _, _, _)
ClientInsertRollouts(r, run, rollouts, step, i) ==
    IF i > Len(rollouts) THEN r
    ELSE IF ~CanDump(Get(rollouts[i], "prompt_tokens", NoneList))
         THEN [r EXCEPT !.ok = FALSE]
    ELSE LET row == ClientRolloutRow(r.t, run, rollouts[i], step)
             r1 == [r EXCEPT !.t.rollouts = @ \cup {row}, !.t.seq.rollouts = @ + 1]
             r2 == InsertTrajectories(r1, row.id,
                                      Get(rollouts[i], "trajectories", <<>>), 1)
         IN  IF r2.ok THEN ClientInsertRollouts(r2, run, rollouts, step, i + 1)
             ELSE r2

\* log_rollout: one commit after the loop, none when the loop raises (an
\* array's truth value raises ValueError, json.dumps of an object TypeError)
log_rollout(c, step, rollouts) ==
    IF c.run_id = NoRun THEN RaiseAs(c, "RuntimeError")
    ELSE LET c1 == TvizClient_get_conn(c)
             r == ClientInsertRollouts([ok |-> TRUE, t |-> c1.tx], c1.run_id,
                                       rollouts, step, 1)
             c2 == [c1 EXCEPT !.tx = r.t]
         IN  IF r.ok THEN commit(c2) ELSE RaiseAs(c2, "TypeError")

\* UPDATE runs SET ended_at = CURRENT_TIMESTAMP WHERE id = ?
ClientEndRow(t, run) ==
    [t EXCEPT !.runs = {IF r.id = run THEN [r EXCEPT !.ended_at = Num(now)] ELSE r
                        : r \in @}]

end_run(c) ==
    IF c.run_id = NoRun THEN c
    ELSE LET c1 == TvizClient_get_conn(c)
         IN  [commit([c1 EXCEPT !.tx = ClientEndRow(c1.tx, c1.run_id)])
              EXCEPT !.run_id = NoRun]

\* TvizClient.close: closing the connection discards an open transaction
TvizClient_close(c) ==
    IF c.conn THEN [c EXCEPT !.conn = FALSE, !.tx = c.db] ELSE c

\* TvizClient.__exit__
TvizClient__exit__(c) == TvizClient_close(end_run(c))

\* tviz_sweep up to the yield
tviz_sweep(name, config, m) == start_run(NewClient, name, config, m)

\* tviz_sweep's finally block
tviz_sweep_finally(c) == TvizClient_close(end_run(c))

\* how the client is used: no client yet
NoClient ==
    [NewClient EXCEPT !.conn = FALSE]
    @@ [op |-> "none", mode |-> "none", phase |-> "idle", sweep_run |-> NoRun,
        exit_run |-> NoRun, body_raised |-> FALSE, restarted |-> FALSE]

\* the inputs of the client's calls
ClientConfigs == {[lr |-> Num(1)], [model |-> PyObject]}
ClientModalities == {"text", "image"}
ClientMetrics ==
    { [loss |-> Frac(1, 5), kl |-> Num(1), custom_x |-> Num(1)],
      [custom_x |-> PyObject] }

(***************************************************************************)
(* State                                                                   *)
(***************************************************************************)
NotLogged == [logged |-> FALSE, m |-> EmptyDict]

InitLogger ==
    /\ db = EmptyStore
    /\ tx = EmptyStore
    /\ conn = TRUE
    /\ config_logged = FALSE
    /\ now = 0
    /\ alive = TRUE
    /\ lastCall = [op |-> "init", ok |-> TRUE, again |-> FALSE]
    /\ logged = [s \in Steps |-> NotLogged]
    /\ calls = {}
    /\ firstClose = None
    /\ returned = FALSE

\* the logger instances of SpecWriters, by run id
RunIds == {run_id, "r2"}

\* a logger instance after construction
NewWriter == [tx |-> EmptyStore, conn |-> TRUE, config_logged |-> FALSE]

\* the store file as the logger's constructor leaves a new file
InitStore ==
    /\ schema = _ensure_schema(NoSchema, Unlocked).sch
    /\ starts = <<[who |-> "logger", locks |-> Unlocked, error |-> ""]>>
    /\ writers = [w \in RunIds |-> NewWriter]
    /\ alone = [w \in RunIds |-> NewWriter @@ [db |-> EmptyStore]]
    /\ client = NoClient

Init ==
    /\ InitLogger
    /\ InitStore
    /\ metrics_arg = EmptyDict
    /\ rollout_arg = EmptyRollout

\* the run rows of this logger in a store
MyRuns(t) == {r \in t.runs : r.id = run_id}

\* the variables a call leaves as `s`, and the record of the call; `again`
\* says that the call repeated what was done before it (a close right after a
\* close, a log_hparams on a registered logger)
Apply(s, op, again) ==
    /\ db' = s.db
    /\ tx' = s.tx
    /\ conn' = s.conn
    /\ config_logged' = s.config_logged
    /\ lastCall' = [op |-> op, ok |-> ~s.raised, again |-> again]

LogHparams(config) ==
    /\ alive
    /\ LET s == log_hparams(Self, config)
       IN  /\ Apply(s, "log_hparams", config_logged)
           /\ returned' = (returned \/ ~s.raised)
    /\ UNCHANGED <<schema, starts, writers, alone, client>>
    /\ UNCHANGED <<now, alive, metrics_arg, rollout_arg, logged, calls,
                   firstClose>>

\* a log_metrics call, but for what becomes of the mapping the caller holds
LogMetricsCall(metrics, step) ==
    /\ alive
    /\ tx.seq.steps < MaxStepWrites
    /\ LET s == log_metrics(Self, metrics, step)
       IN  /\ Apply(s, "log_metrics", FALSE)
           /\ returned' = (returned \/ ~s.raised)
           /\ logged' = IF ~s.raised /\ step # None
                        THEN [logged EXCEPT ![step] = [logged |-> TRUE, m |-> metrics]]
                        ELSE logged
    /\ UNCHANGED <<schema, starts, writers, alone, client>>
    /\ UNCHANGED <<now, alive, rollout_arg, calls, firstClose>>

\* the caller passes a mapping built for the call
LogMetrics(metrics, step) ==
    /\ LogMetricsCall(metrics, step)
    /\ UNCHANGED metrics_arg

\* the caller passes the mapping it holds: the pops are reached when the
\* auto-registration did not raise and step is not None
LogMetricsArg(step) ==
    /\ LogMetricsCall(metrics_arg, step)
    /\ metrics_arg' = IF step = None \/ auto_register(Self).raised THEN metrics_arg
                      ELSE MetricsAfterPops(metrics_arg)

LogRollouts(rollouts, step) ==
    /\ alive
    /\ tx.seq.rollouts + Len(rollouts) <= MaxRolloutRows
    /\ LET s == log_rollouts(Self, rollouts, step)
       IN  /\ Apply(s, "log_rollouts", FALSE)
           /\ returned' = (returned \/ ~s.raised)
           /\ calls' = calls \cup {[first |-> tx.seq.rollouts + 1,
                                    wrote |-> s.tx.seq.rollouts - tx.seq.rollouts,
                                    rollouts |-> rollouts, ok |-> ~s.raised]}
    /\ UNCHANGED <<schema, starts, writers, alone, client>>
    /\ UNCHANGED <<now, alive, metrics_arg, rollout_arg, logged, firstClose>>

Close ==
    /\ alive
    /\ Apply(close(Self), "close", lastCall.op = "close")
    /\ firstClose' = IF firstClose = None /\ conn /\ MyRuns(tx) # {}
                     THEN Num(now) ELSE firstClose
    /\ UNCHANGED <<schema, starts, writers, alone, client>>
    /\ UNCHANGED <<now, alive, metrics_arg, rollout_arg, logged, calls,
                   returned>>

\* the process dies: the open transaction is never committed
Crash ==
    /\ alive
    /\ alive' = FALSE
    /\ tx' = db
    /\ conn' = FALSE
    /\ UNCHANGED <<schema, starts, writers, alone, client>>
    /\ UNCHANGED <<db, config_logged, now, metrics_arg, rollout_arg,
                   lastCall, logged, calls, firstClose, returned>>

Tick ==
    /\ alive
    /\ now < MaxTime
    /\ now' = now + 1
    /\ UNCHANGED <<schema, starts, writers, alone, client>>
    /\ UNCHANGED <<db, tx, conn, config_logged, alive, metrics_arg,
                   rollout_arg, lastCall, logged, calls, firstClose,
                   returned>>

\* some TvizLogger has been constructed on the store file
HasLogger == \E i \in 1..Len(starts) : starts[i].who = "logger" /\ starts[i].error = ""

\* TvizLogger.__init__ in some process: the first one constructs the logger
\* whose calls are modelled, and opens its connection
LoggerStart(locks) ==
    /\ alive
    /\ Len(starts) < MaxStarts
    /\ LET r == _ensure_schema(schema, locks)
       IN  /\ schema' = r.sch
           /\ starts' = Append(starts, [who |-> "logger", locks |-> locks,
                                        error |-> r.error])
           /\ conn' = (conn \/ (~HasLogger /\ r.error = ""))
    /\ UNCHANGED <<db, tx, config_logged, now, alive, metrics_arg, rollout_arg,
                   lastCall, logged, calls, firstClose, returned, writers, alone,
                   client>>

\* TvizClient.__init__ in some process
ClientStart ==
    /\ alive
    /\ Len(starts) < MaxStarts
    /\ schema' = TvizClient_ensure_schema(schema)
    /\ starts' = Append(starts, [who |-> "client", locks |-> Unlocked, error |-> ""])
    /\ UNCHANGED <<db, tx, conn, config_logged, now, alive, metrics_arg, rollout_arg,
                   lastCall, logged, calls, firstClose, returned, writers, alone,
                   client>>

\* the other run id
OtherRun(w) == CHOOSE v \in RunIds : v # w

\* a store with the two run ids exchanged in every row
SwapRuns(t) ==
    [t EXCEPT
       !.runs = {[r EXCEPT !.id = OtherRun(@), !.name = OtherRun(@)] : r \in @},
       !.steps = {[r EXCEPT !.run_id = OtherRun(@)] : r \in @},
       !.rollouts = {[r EXCEPT !.run_id = OtherRun(@)] : r \in @}]

SwapSelf(self) == [self EXCEPT !.db = SwapRuns(@), !.tx = SwapRuns(@)]

\* the methods above are those of the instance whose self.run_id is run_id;
\* the same code runs for the other instance with the other id in its place:
\* a method of instance w is applied to AsWriter(w, self) and its result is
\* read through AsWriter again
AsWriter(w, self) == IF w = run_id THEN self ELSE SwapSelf(self)

\* `self` of instance w
SelfOf(w) ==
    [db |-> db, tx |-> writers[w].tx, conn |-> writers[w].conn,
     config_logged |-> writers[w].config_logged, schema |-> schema, raised |-> FALSE]

\* `self` of instance w had its calls been the only ones
SelfAlone(w) == alone[w] @@ [schema |-> schema, raised |-> FALSE]

\* another connection holds the write lock: it has written and not committed
Locked(w) == \E v \in RunIds \ {w} : writers[v].tx # db

\* a call of instance w.  SQLite lets one connection write at a time: the
\* first writing statement of the call waits for the lock and raises
\* sqlite3.OperationalError (database is locked) when the timeout passes
\* with the lock still held.
\* `free` is where the call leads with the lock free, `solo` where it leads
\* had the calls of w been the only ones.
WriterCall(w, free, solo) ==
    LET self == SelfOf(w)
        writes == free.tx # self.tx \/ free.db # self.db
        res == IF writes /\ Locked(w) THEN Raise(_get_conn(self)) ELSE free
    IN  /\ db' = res.db
        /\ writers' =
              [v \in RunIds |->
                  IF v = w
                  THEN [tx |-> res.tx, conn |-> res.conn,
                        config_logged |-> res.config_logged]
                  ELSE [writers[v] EXCEPT !.tx = IF @ = db THEN res.db ELSE @]]
        /\ alone' = [alone EXCEPT ![w] = [db |-> solo.db, tx |-> solo.tx,
                                          conn |-> solo.conn,
                                          config_logged |-> solo.config_logged]]
        /\ lastCall' = [op |-> w, ok |-> ~res.raised, again |-> FALSE]
        /\ UNCHANGED <<tx, conn, config_logged, now, alive, metrics_arg, rollout_arg,
                       logged, calls, firstClose, returned, schema, starts, client>>

\* the step rows and rollout rows a connection has inserted or seen inserted
Written(t) == t.seq.steps + t.seq.rollouts

WriterLogMetrics(w, metrics, step) ==
    /\ Written(writers[w].tx) < MaxWrites
    /\ Written(alone[w].tx) < MaxWrites
    /\ WriterCall(w, AsWriter(w, log_metrics(AsWriter(w, SelfOf(w)), metrics, step)),
                     AsWriter(w, log_metrics(AsWriter(w, SelfAlone(w)), metrics, step)))

WriterLogRollouts(w, rollouts, step) ==
    /\ Written(writers[w].tx) + Len(rollouts) <= MaxWrites
    /\ Written(alone[w].tx) + Len(rollouts) <= MaxWrites
    /\ WriterCall(w, AsWriter(w, log_rollouts(AsWriter(w, SelfOf(w)), rollouts, step)),
                     AsWriter(w, log_rollouts(AsWriter(w, SelfAlone(w)), rollouts, step)))

WriterClose(w) ==
    WriterCall(w, AsWriter(w, close(AsWriter(w, SelfOf(w)))),
                  AsWriter(w, close(AsWriter(w, SelfAlone(w)))))

LogRolloutsArg(before, after, step) ==
    LogRollouts(before \o <<rollout_arg>> \o after, step)

Next ==
    \/ \E c \in ConfigInputs : LogHparams(c)
    \/ \E m \in LifeMetrics, s \in {Num(0), None} : LogMetrics(m, s)
    \/ \E b \in LifeBatches : LogRollouts(b, Num(0))
    \/ Close
    \/ Crash
    \/ Tick

Spec == Init /\ [][Next]_vars

\* step logging: every mapping of StepMetrics at every step, among the
\* other calls
NextSteps ==
    \/ \E m \in StepMetrics, s \in StepArgs : LogMetrics(m, s)
    \/ LogHparams([lr |-> Num(1)])
    \/ LogRollouts(<<GoodRollout>>, Num(0))
    \/ Close

SpecSteps == Init /\ [][NextSteps]_vars

\* the normaliser: the caller holds any mapping of RichMetrics and logs it
InitMetrics ==
    /\ InitLogger
    /\ InitStore
    /\ metrics_arg \in RichMetrics
    /\ rollout_arg = EmptyRollout

NextMetrics ==
    \/ \E s \in {Num(0), None} : LogMetrics(metrics_arg, s)
    \/ Close

SpecMetrics == InitMetrics /\ [][NextMetrics]_vars

\* the integral columns: the caller holds any mapping of IntegralMetrics and
\* logs it
InitIntegral ==
    /\ InitLogger
    /\ InitStore
    /\ metrics_arg \in IntegralMetrics
    /\ rollout_arg = EmptyRollout

SpecIntegral == InitIntegral /\ [][NextMetrics]_vars

\* the caller holds one mapping of CallerMetrics and logs that object at
\* every step
InitCaller ==
    /\ InitLogger
    /\ InitStore
    /\ metrics_arg \in CallerMetrics
    /\ rollout_arg = EmptyRollout

NextCaller ==
    \/ \E s \in StepArgs : LogMetricsArg(s)
    \/ Close

SpecCaller == InitCaller /\ [][NextCaller]_vars

\* schema setup: constructors of loggers and clients run in any order against
\* a store file that does not exist at first; the logger, once constructed,
\* logs and closes
InitSchema ==
    /\ db = EmptyStore
    /\ tx = EmptyStore
    /\ conn = FALSE
    /\ config_logged = FALSE
    /\ now = 0
    /\ alive = TRUE
    /\ lastCall = [op |-> "init", ok |-> TRUE, again |-> FALSE]
    /\ logged = [s \in Steps |-> NotLogged]
    /\ calls = {}
    /\ firstClose = None
    /\ returned = FALSE
    /\ metrics_arg = EmptyDict
    /\ rollout_arg = EmptyRollout
    /\ schema = NoSchema
    /\ starts = <<>>
    /\ writers = [w \in RunIds |-> NewWriter]
    /\ alone = [w \in RunIds |-> NewWriter @@ [db |-> EmptyStore]]
    /\ client = NoClient

NextSchema ==
    \/ \E locks \in [1..Len(MigratedColumns) -> BOOLEAN] : LoggerStart(locks)
    \/ ClientStart
    \/ \E m \in StepMetrics : HasLogger /\ LogMetrics(m, Num(0))
    \/ HasLogger /\ Close

SpecSchema == InitSchema /\ [][NextSchema]_vars

\* two logger instances write to one store file, their calls interleaved
NextWriters ==
    \E w \in RunIds :
        \/ WriterLogMetrics(w, [loss |-> Frac(1, 5), custom_x |-> Num(1)], Num(0))
        \/ \E b \in LifeBatches : WriterLogRollouts(w, b, Num(0))
        \/ WriterClose(w)

SpecWriters == Init /\ [][NextWriters]_vars

\* the logger's variables, which the client's calls leave alone
loggerVars ==
    <<db, tx, conn, config_logged, now, alive, metrics_arg, rollout_arg,
      lastCall, logged, calls, firstClose, returned, schema, starts,
      writers, alone>>

\* the client as a call finds it
Calling == [client EXCEPT !.raised = NoError]

\* the client as the call `op` leaves it
ClientCall(c, op) ==
    /\ client' = [c EXCEPT !.op = op]
    /\ UNCHANGED loggerVars

\* client = TvizClient(db_path)
ClientNew ==
    /\ client.phase = "idle"
    /\ ClientCall([NoClient EXCEPT !.conn = TRUE, !.mode = "plain", !.phase = "body"],
                  "init")

\* with TvizClient(db_path) as client:
ClientEnter ==
    /\ client.phase = "idle"
    /\ ClientCall([NoClient EXCEPT !.conn = TRUE, !.mode = "with", !.phase = "body"],
                  "init")

\* with tviz_sweep(name, config) as client: the body runs when start_run
\* returned
SweepEnter(config) ==
    /\ client.phase = "idle"
    /\ LET c == tviz_sweep("sweep", config, "text") @@ NoClient
       IN  ClientCall([c EXCEPT !.mode = "sweep",
                                !.phase = IF c.raised = NoError THEN "body"
                                          ELSE "failed",
                                !.sweep_run = c.run_id],
                      "tviz_sweep")

ClientStartRun(config, m) ==
    /\ client.phase = "body"
    /\ client.uuids < MaxRuns
    /\ ClientCall([start_run(Calling, "run", config, m) EXCEPT !.restarted = TRUE],
                  "start_run")

ClientLogStep(step, metrics) ==
    /\ client.phase = "body"
    /\ Written(client.tx) < MaxClientWrites
    /\ ClientCall(log_step(Calling, step, metrics), "log_step")

ClientLogRollout(step, rollouts) ==
    /\ client.phase = "body"
    /\ Written(client.tx) + Len(rollouts) <= MaxClientWrites
    /\ ClientCall(log_rollout(Calling, step, rollouts), "log_rollout")

ClientEndRun ==
    /\ client.phase = "body"
    /\ ClientCall(end_run(Calling), "end_run")

ClientClose ==
    /\ client.phase = "body"
    /\ ClientCall(TvizClient_close(Calling), "close")

\* the body of the with statement ends, by returning or by the exception of
\* its last call: tviz_sweep's finally block, or __exit__
ContextExit ==
    /\ client.phase = "body"
    /\ client.mode \in {"sweep", "with"}
    /\ LET c == IF client.mode = "sweep" THEN tviz_sweep_finally(Calling)
                ELSE TvizClient__exit__(Calling)
       IN  ClientCall([c EXCEPT !.phase = "exited",
                                !.exit_run = client.run_id,
                                !.body_raised = (client.raised # NoError)],
                      "exit")

NextClient ==
    \/ ClientNew
    \/ ClientEnter
    \/ \E c \in ClientConfigs : SweepEnter(c)
    \/ \E c \in ClientConfigs, m \in ClientModalities : ClientStartRun(c, m)
    \/ \E m \in ClientMetrics : ClientLogStep(Num(0), m)
    \/ \E b \in LifeBatches : ClientLogRollout(Num(0), b)
    \/ ClientEndRun
    \/ ClientClose
    \/ ContextExit

SpecClient == Init /\ [][NextClient]_vars

\* the mappings of SpecAliases: any of the two canonical names that have an
\* alias, the aliases and an overflow key, each with a value of its own
AliasValues ==
    [kl_divergence |-> Frac(1, 2), kl |-> Num(1), learning_rate |-> Frac(1, 4),
     lr |-> Num(2), custom_x |-> Num(3)]
AliasMetrics == {[k \in ks |-> AliasValues[k]] : ks \in SUBSET DOMAIN AliasValues}

\* a client logs steps from mappings that name a metric by its canonical
\* name, by its alias, or by both
NextAliases ==
    \/ ClientNew
    \/ ClientStartRun([lr |-> Num(1)], "text")
    \/ \E m \in AliasMetrics : ClientLogStep(Num(0), m)
    \/ ClientEndRun
    \/ ClientClose

SpecAliases == Init /\ [][NextAliases]_vars


\* list-valued fields: the caller holds a rollout that carries any list of
\* Lists in one of the list-valued fields, and logs it
InitLists ==
    /\ InitLogger
    /\ InitStore
    /\ metrics_arg = EmptyDict
    /\ rollout_arg \in ListRollouts

NextLists ==
    \/ \E s \in Steps : LogRolloutsArg(<<>>, <<>>, s)
    \/ Close

SpecLists == InitLists /\ [][NextLists]_vars

\* rollout aggregation: the caller holds any rollout of RichRollouts and logs
\* it alone, after a rollout of two trajectories, before an empty one
InitRollouts ==
    /\ InitLogger
    /\ InitStore
    /\ metrics_arg = EmptyDict
    /\ rollout_arg \in RichRollouts

NextRollouts ==
    \E before \in {<<>>, <<GoodRollout>>}, after \in {<<>>, <<EmptyRollout>>},
          s \in Steps : LogRolloutsArg(before, after, s)

SpecRollouts == InitRollouts /\ [][NextRollouts]_vars

\* the two write paths: the caller holds any rollout of RichRollouts and logs
\* it at step 0 through a TvizLogger into one store file and through a
\* TvizClient into another
NextPaths ==
    \/ LogRolloutsArg(<<>>, <<>>, Num(0))
    \/ ClientNew
    \/ ClientStartRun([lr |-> Num(1)], "text")
    \/ ClientLogRollout(Num(0), <<rollout_arg>>)

SpecPaths == InitRollouts /\ [][NextPaths]_vars

(***************************************************************************)
(* Claims                                                                  *)
(***************************************************************************)
\* the step rows of this logger's run for step s in a store
StepRows(t, s) == {r \in t.steps : r.run_id = run_id /\ r.step = s}

\* C1: the row of a step holds exactly what the last log_metrics call that
\* returned for that step gave: its canonical values and its extras, and no
\* value or overflow key of an earlier call for the step.
C1_LastWriteWins ==
    \A s \in Steps :
        logged[s].logged =>
            /\ Cardinality(StepRows(db, s)) = 1
            /\ StepRows(tx, s) = StepRows(db, s)
            /\ \A r \in StepRows(db, s) :
                  /\ [c \in Columns \cup {"extras"} |-> r[c]] = StepValues(logged[s].m)
                  /\ \A k \in DOMAIN r.extras.json :
                        k \in DOMAIN logged[s].m /\ r.extras.json[k] = logged[s].m[k]

\* a step was logged, then logged again with a mapping that shares no key with
\* the row the first call left
C1_Witness ==
    /\ lastCall.op = "log_metrics" /\ lastCall.ok
    /\ logged[Num(0)].logged
    /\ logged[Num(0)].m = [loss |-> Frac(1, 5), custom_x |-> Num(1)]
    /\ logged[Num(1)].logged
    /\ \E r \in StepRows(db, Num(0)) : r.id = 3 /\ r.reward_mean = None

\* the rollout ids a log_rollouts call used, and the rows of a store that the
\* call wrote
CallIds(c) == c.first..(c.first + c.wrote - 1)
CallRollouts(t, c) == {r \in t.rollouts : r.id \in CallIds(c)}
CallTrajectories(t, c) == {x \in t.trajectories : x.rollout_id \in CallIds(c)}
TrajectoriesOf(t, rid) == {x \in t.trajectories : x.rollout_id = rid}

\* C2: the rows of one log_rollouts call are committed as one unit: the
\* committed store holds either no rollout row of the call, or a row for every
\* rollout of the call, each with as many trajectory rows as were supplied.
C2_BatchCommitsAsUnit ==
    \A c \in calls :
        \/ CallRollouts(db, c) = {}
        \/ \A i \in 1..Len(c.rollouts) :
              /\ i <= c.wrote
              /\ \E r \in db.rollouts : r.id = c.first + i - 1
              /\ Cardinality(TrajectoriesOf(db, c.first + i - 1))
                     = Len(Get(c.rollouts[i], "trajectories", <<>>))

\* C3: a log_rollouts call that raised is unpersisted: no rollout or
\* trajectory row it wrote is in the committed store, whatever is called later.
C3_FailedCallUnpersisted ==
    \A c \in calls :
        ~c.ok => CallRollouts(db, c) = {} /\ CallTrajectories(db, c) = {}

\* the sum of rewards[i..] (whole numbers)
RECURSIVE SumN(_, _)
SumN(rewards, i) == IF i > Len(rewards) THEN 0 ELSE rewards[i].n + SumN(rewards, i + 1)

\* C4: every rollout row a log_rollouts call wrote holds the arithmetic mean
\* and the maximum of the rewards of the trajectories supplied for that rollout
\* in that call (a missing reward counting 0), whatever mean_reward or
\* best_reward key the rollout dict carries; with no trajectories, or no
\* trajectories key, both are absent.
C4_RewardAggregates ==
    \A c \in calls : \A i \in 1..c.wrote :
        \A r \in tx.rollouts \cup db.rollouts :
            r.id = c.first + i - 1 =>
                LET ts == Get(c.rollouts[i], "trajectories", <<>>)
                    rs == [j \in 1..Len(ts) |-> Get(ts[j], "reward", Num(0))]
                IN  IF Len(ts) = 0
                    THEN r.mean_reward = None /\ r.best_reward = None
                    ELSE /\ r.mean_reward.d > 0
                         /\ r.mean_reward.n * Len(ts) = SumN(rs, 1) * r.mean_reward.d
                         /\ \E j \in 1..Len(ts) : rs[j] = r.best_reward
                         /\ \A j \in 1..Len(ts) : rs[j].n <= r.best_reward.n

\* a rollout with rewards 2 and 1 and aggregates of the caller's own was
\* committed before an empty one
C4_Witness ==
    /\ "mean_reward" \in DOMAIN rollout_arg
    /\ lastCall.op = "log_rollouts" /\ lastCall.ok
    /\ \E r \in db.rollouts : r.mean_reward = Frac(3, 2) /\ r.best_reward = Num(2)
    /\ \E r \in db.rollouts : r.mean_reward = None /\ r.best_reward = None

\* the keys that name a canonical column: the keys pop_metric is given for
\* it, bare or under a prefix
Names ==
    [c \in Columns |->
        LET f == CHOOSE i \in 1..Len(Fields) : Fields[i].col = c
            ks == {Fields[f].keys[j] : j \in 1..Len(Fields[f].keys)}
        IN  ks \cup {Prefixes[p] \o k : p \in 1..Len(Prefixes), k \in ks}] @@ <<>>
NamesOf(c) == Names[c]

\* 1 when the overflow bag of row r holds key k with value v, else 0
InExtras(r, k, v) ==
    IF ~r.extras.null /\ k \in DOMAIN r.extras.json /\ r.extras.json[k] = v
    THEN 1 ELSE 0

\* what a column stores of an extracted value: the integral columns the
\* whole part, or nothing when the value is zero
StoredAs(c, v) ==
    IF c \in IntColumns THEN (IF v = Num(0) THEN None ELSE Num(v.n \div v.d)) ELSE v

\* C5 as stated: every key of the mapping has its value in exactly one place
\* of the written row, a canonical column it names or the overflow bag.
C5_ExactlyOnePlace ==
    \A r \in db.steps : \A k \in DOMAIN metrics_arg :
        Cardinality({c \in Columns : k \in NamesOf(c) /\ r[c] = metrics_arg[k]})
            + InExtras(r, k, metrics_arg[k]) = 1

\* C5 (amended): every key of the mapping has its value in exactly one place
\* of the written row, a canonical column it names or the overflow bag, never
\* both and never neither, where total_ac_tokens and total_turns hold the
\* extracted value as an integer, or nothing when it is zero; the overflow bag
\* holds no other key.
C5_OnePlaceUpToIntCoercion ==
    \A r \in db.steps \cup tx.steps :
        /\ \A k \in DOMAIN metrics_arg :
              Cardinality({c \in Columns :
                              k \in NamesOf(c) /\ r[c] = StoredAs(c, metrics_arg[k])})
                  + InExtras(r, k, metrics_arg[k]) = 1
        /\ DOMAIN r.extras.json \subseteq DOMAIN metrics_arg

\* {reward_mean: 0.5, loss: 0.2, custom_x: 1} was logged
C5_Witness ==
    /\ metrics_arg = [reward_mean |-> Frac(1, 2), loss |-> Frac(1, 5),
                      custom_x |-> Num(1)]
    /\ \E r \in db.steps :
          /\ r.reward_mean = Frac(1, 2)
          /\ r.loss = Frac(1, 5)
          /\ r.extras = [null |-> FALSE, json |-> [custom_x |-> Num(1)]]

\* the prefixed "correct" keys of a mapping that has no bare "correct" key
PrefixedCorrect(m) ==
    IF "correct" \in DOMAIN m THEN {}
    ELSE {Prefixes[p] \o "correct" : p \in 1..Len(Prefixes)} \cap DOMAIN m

\* C6 as stated: a prefixed "correct" key is extracted into a canonical
\* column exactly once and is not in the overflow bag.
C6_PrefixedCorrectExtracted ==
    \A r \in db.steps : \A k \in PrefixedCorrect(metrics_arg) :
        /\ Cardinality({c \in Columns : r[c] = metrics_arg[k]}) = 1
        /\ InExtras(r, k, metrics_arg[k]) = 0

\* C6 (amended): a prefixed "correct" key is extracted into no canonical
\* column: the written row holds it exactly once, in the overflow bag under its
\* prefixed name and with its value, and the canonical columns are those of
\* the mapping without the key.
C6_PrefixedCorrectInExtras ==
    \A r \in db.steps \cup tx.steps : \A k \in PrefixedCorrect(metrics_arg) :
        /\ InExtras(r, k, metrics_arg[k]) = 1
        /\ \A c \in Columns : r[c] = StepValues(DictRemove(metrics_arg, k))[c]

\* {"env/all/correct": 1, reward_mean: 0.5} was logged
C6_Witness ==
    /\ metrics_arg = ("env/all/correct" :> Num(1)) @@ [reward_mean |-> Frac(1, 2)]
    /\ \E r \in db.steps :
          /\ r.reward_mean = Frac(1, 2)
          /\ r.extras = [null |-> FALSE, json |-> ("env/all/correct" :> Num(1))]

\* the end timestamps of this logger's run in the committed store
EndedAt(t) == {r.ended_at : r \in MyRuns(t)}

\* C7: a close called right after a close raises nothing and leaves the
\* run's end timestamp (and the rest of the store) as the first close left it.
C7_CloseTwice ==
    [][(lastCall.op = "close" /\ Close)
         => (lastCall'.ok /\ EndedAt(db') = EndedAt(db) /\ db' = db)]_vars

C7_Witness ==
    /\ lastCall = [op |-> "close", ok |-> TRUE, again |-> TRUE]
    /\ firstClose # None
    /\ firstClose # Num(now)
    /\ EndedAt(db) = {firstClose}

\* C8: once a close has set the end timestamp of the run, nothing changes it.
C8_ClosedStaysClosed ==
    firstClose # None => EndedAt(db) = {firstClose}

\* C9: the runs table never holds more than one row of this logger, and holds
\* exactly one once a log_hparams, log_metrics or log_rollouts call returned.
C9_OneRunRow ==
    /\ Cardinality(MyRuns(db)) <= 1
    /\ Cardinality(MyRuns(tx)) <= 1
    /\ returned => Cardinality(MyRuns(db)) = 1

\* the first call was a log_metrics, which registered the run itself
C9_Witness ==
    /\ returned
    /\ lastCall.op = "log_metrics" /\ lastCall.ok
    /\ db.steps # {}
    /\ Cardinality(MyRuns(db)) = 1
    /\ \E r \in MyRuns(db) : r.config.null

\* C10: log_hparams on a registered logger, for any config, returns and leaves
\* the committed store and the connection's view of it unchanged.
C10_HparamsNoOp ==
    [][\A c \in ConfigInputs :
         (config_logged /\ LogHparams(c)) => (lastCall'.ok /\ db' = db /\ tx' = tx)]_vars

C10_Witness ==
    /\ lastCall = [op |-> "log_hparams", ok |-> TRUE, again |-> TRUE]
    /\ \E r \in MyRuns(db) : r.config.null
    /\ tx # db

\* the rows of a store that refer to no run row of the store
Orphans(t) ==
    {r \in t.steps \cup t.rollouts : \A run \in t.runs : run.id # r.run_id}

\* what a call on an unregistered logger leaves: the logger registered, its
\* run row committed with no configuration, and no row without its run
Registered ==
    /\ config_logged'
    /\ \E r \in MyRuns(db') : r.config.null
    /\ Orphans(db') = {} /\ Orphans(tx') = {}

\* C11: log_metrics and log_rollouts on a logger that is not registered
\* register it first: the run row is committed with an absent configuration,
\* the call raises nothing when its input can be stored, and the step and
\* rollout rows it writes refer to an existing run.
C11_AutoRegistration ==
    [][/\ \A m \in LifeMetrics, s \in {Num(0), None} :
            (~config_logged /\ LogMetrics(m, s))
                => (Registered /\ (Serializable(m) => lastCall'.ok))
       /\ \A b \in LifeBatches :
            (~config_logged /\ LogRollouts(b, Num(0)))
                => (Registered /\ (b = <<GoodRollout>> => lastCall'.ok))]_vars

\* the first call was a log_rollouts, which registered the run itself
C11_Witness ==
    /\ lastCall.op = "log_rollouts" /\ lastCall.ok
    /\ db.steps = {}
    /\ db.rollouts # {} /\ db.trajectories # {}
    /\ \E r \in MyRuns(db) : r.config.null /\ r.ended_at = None
    /\ Orphans(db) = {}

\* every child row of a store refers to a parent row of the store
Owned(t) ==
    /\ \A x \in t.trajectories : \E r \in t.rollouts : r.id = x.rollout_id
    /\ Orphans(t) = {}

\* a step keeps every run and every rollout of the committed store
ParentsKept ==
    /\ \A r \in db.runs : \E q \in db'.runs : q.id = r.id
    /\ \A r \in db.rollouts : r \in db'.rollouts

\* C12: in every committed state every trajectory row refers to an
\* existing rollout row and every rollout and step row to an existing run
\* row, and no operation removes a run or a rollout.
C12_Ownership == []Owned(db) /\ [][ParentsKept]_vars

\* the rows a failed log_rollouts left were committed by a later call, beside
\* a step row
C12_Witness ==
    /\ \E c \in calls : ~c.ok /\ CallTrajectories(db, c) # {}
    /\ db.steps # {}
    /\ Owned(db)

\* no two rows of the steps table of a store share (run_id, step)
StepsUnique(t) ==
    \A a, b \in t.steps : (a.run_id = b.run_id /\ a.step = b.step) => a = b

\* C13: the steps table never holds two rows for one (run_id, step), and
\* holds a row for (run_id, s) once a log_metrics call with step s returned.
C13_OneRowPerStep ==
    /\ StepsUnique(db) /\ StepsUnique(tx)
    /\ \A s \in Steps :
          logged[s].logged =>
              \E r \in db.steps : r.run_id = run_id /\ r.step = s

\* step 0 was logged twice and step 1 once: three writes, two rows
C13_Witness ==
    /\ db.seq.steps = 3
    /\ Cardinality(db.steps) = 2
    /\ logged[Num(0)].logged /\ logged[Num(1)].logged
    /\ \E r \in db.steps : r.step = Num(0) /\ r.id > 1

\* C14: once a logger has been constructed on the store, the schema is the
\* one a logger alone leaves, whatever constructors ran before and after and
\* in whatever order, and the steps table has every column that log_metrics
\* writes.
C14_SchemaConverges ==
    HasLogger =>
        /\ schema = _ensure_schema(NoSchema, Unlocked).sch
        /\ StepInsertColumns \subseteq schema.cols["steps"]

\* the value of the digit character c
DigitValue(c) == CHOOSE k \in 0..9 : DigitChar[k + 1] = c

\* the number a JSON number text denotes; i runs over its characters, n is
\* the digits read so far as a natural number and d the power of ten that
\* counts the decimal places read
RECURSIVE ParseNumber(_, _, _, _)
ParseNumber(chars, i, n, d) ==
    IF i > Len(chars) THEN Frac(n, IF d = 0 THEN 1 ELSE d)
    ELSE IF chars[i] = "-"
         THEN LET v == ParseNumber(chars, i + 1, n, d)
              IN  [n |-> 0 - v.n, d |-> v.d]
    ELSE IF chars[i] = "." THEN ParseNumber(chars, i + 1, n, 1)
    ELSE ParseNumber(chars, i + 1, n * 10 + DigitValue(chars[i]),
                     IF d = 0 THEN 0 ELSE d * 10)

\* json.loads of the text of a list: cur holds the characters of the element
\* being read, acc the elements read
RECURSIVE ParseList(_, _, _, _)
ParseList(text, i, cur, acc) ==
    IF i >= Len(text)
    THEN IF cur = <<>> THEN acc ELSE Append(acc, ParseNumber(cur, 1, 0, 0))
    ELSE IF text[i] = "," THEN ParseList(text, i + 1, <<>>,
                                         Append(acc, ParseNumber(cur, 1, 0, 0)))
    ELSE IF text[i] = " " THEN ParseList(text, i + 1, cur, acc)
    ELSE ParseList(text, i + 1, Append(cur, text[i]), acc)

json_loads(text) == ParseList(text, 2, <<>>, <<>>)

\* what a reader decodes from a stored list-valued column
Decode(column) == IF column.null THEN NoneList ELSE List(json_loads(column.json))

\* C15: decoding the stored text of prompt_tokens, output_tokens, logprobs
\* and step_rewards gives the list that was supplied, element for element,
\* whatever its length.
C15_ListRoundTrip ==
    \A c \in calls : c.ok =>
        /\ \A r \in CallRollouts(db, c) :
              Decode(r.prompt_tokens) = Get(c.rollouts[1], "prompt_tokens", NoneList)
        /\ \A x \in CallTrajectories(db, c) :
              \A f \in ListFields \ {"prompt_tokens"} :
                  Decode(x[f]) = Get(c.rollouts[1].trajectories[1], f, NoneList)

\* the same for the lists that are not empty
C15_NonEmptyRoundTrip ==
    \A c \in calls : c.ok =>
        /\ \A r \in CallRollouts(db, c) :
              LET l == Get(c.rollouts[1], "prompt_tokens", NoneList)
              IN  l.items # <<>> => Decode(r.prompt_tokens) = l
        /\ \A x \in CallTrajectories(db, c) :
              \A f \in ListFields \ {"prompt_tokens"} :
                  LET l == Get(c.rollouts[1].trajectories[1], f, NoneList)
                  IN  l.items # <<>> => Decode(x[f]) = l

\* a trajectory entry with nothing wrong but, possibly, a missing reward
Tolerable(traj) ==
    /\ "reward" \in DOMAIN traj => IsNumber(traj.reward)
    /\ \A f \in ListFields \cap DOMAIN traj : traj[f].kind # "array"

\* a batch of such entries, one of them without the reward field
LacksReward(rollouts) ==
    /\ \A i \in 1..Len(rollouts) :
          LET ts == Get(rollouts[i], "trajectories", <<>>)
          IN  \A j \in 1..Len(ts) : Tolerable(ts[j])
    /\ \E i \in 1..Len(rollouts) :
          LET ts == Get(rollouts[i], "trajectories", <<>>)
          IN  \E j \in 1..Len(ts) : "reward" \notin DOMAIN ts[j]

\* the committed trajectory row for the j-th trajectory of the i-th rollout
\* of call c, as a set (trajectory_idx is j - 1 in every input)
RowOfTraj(c, i, j) ==
    {x \in db.trajectories :
        x.rollout_id = c.first + i - 1 /\ x.trajectory_idx = Num(j - 1)}

\* C16: a log_rollouts call whose only defect is a trajectory without the
\* reward field returns; every rollout and every trajectory of the call is
\* committed, the trajectory without reward with reward 0, and it counts 0 in
\* the mean_reward and best_reward of its rollout.
C16_MissingRewardTolerated ==
    \A c \in calls : LacksReward(c.rollouts) =>
        /\ c.ok /\ c.wrote = Len(c.rollouts)
        /\ \A i \in 1..Len(c.rollouts) :
              LET ts == Get(c.rollouts[i], "trajectories", <<>>)
                  given == {j \in 1..Len(ts) : "reward" \in DOMAIN ts[j]}
                  rs == [j \in 1..Len(ts) |->
                           IF j \in given THEN ts[j].reward ELSE Num(0)]
              IN  /\ \A j \in 1..Len(ts) :
                        /\ Cardinality(RowOfTraj(c, i, j)) = 1
                        /\ \A x \in RowOfTraj(c, i, j) :
                              x.reward = rs[j]
                  /\ \A r \in db.rollouts : (r.id = c.first + i - 1 /\ Len(ts) > 0) =>
                        /\ r.mean_reward.n * Len(ts) = SumN(rs, 1) * r.mean_reward.d
                        /\ \E j \in 1..Len(ts) : r.best_reward = rs[j]
                        /\ \A j \in 1..Len(ts) : rs[j].n <= r.best_reward.n
                  /\ \E r \in db.rollouts : r.id = c.first + i - 1

\* a rollout whose first trajectory has no reward and whose second has
\* reward 2 was committed after a sibling rollout: mean 1, best 2
C16_Witness ==
    /\ Get(rollout_arg, "trajectories", <<>>) = <<NoRewardTraj(0), GoodTraj(1, 2)>>
    /\ \E c \in calls : Len(c.rollouts) > 1 /\ LacksReward(c.rollouts)
    /\ \E r \in db.rollouts :
          /\ r.id = 2 /\ r.mean_reward = Num(1) /\ r.best_reward = Num(2)
          /\ \E x \in db.trajectories : x.rollout_id = r.id /\ x.reward = Num(0)
          /\ \E x \in db.trajectories : x.rollout_id = r.id /\ x.reward = Num(2)

\* what a log_rollouts(R, s) step that returns has added: the rows the
\* connection sees after it and not before, all of them committed
FanOut(R, s) ==
    LET newR == tx'.rollouts \ tx.rollouts
        newT == tx'.trajectories \ tx.trajectories
    IN  /\ newR \subseteq db'.rollouts /\ newT \subseteq db'.trajectories
        /\ Cardinality(newR) = Len(R)
        /\ \A x \in newT : \E r \in newR : x.rollout_id = r.id
        /\ \A i \in 1..Len(R) :
              \E r \in newR :
                  LET ts == Get(R[i], "trajectories", <<>>)
                      mine == {x \in newT : x.rollout_id = r.id}
                  IN  /\ r.id = tx.seq.rollouts + i
                      /\ r.run_id = run_id /\ r.step = s
                      /\ r.group_idx = Get(R[i], "group_idx", Num(0))
                      /\ r.image_path = Get(R[i], "image_path", NoText)
                      /\ r.prompt_text = Get(R[i], "prompt_text", NoText)
                      /\ Cardinality(mine) = Len(ts)
                      /\ \E base \in 0..Cardinality(tx'.trajectories) :
                            \A j \in 1..Len(ts) :
                                \E x \in mine :
                                    /\ x.id = base + j
                                    /\ x.trajectory_idx
                                           = Get(ts[j], "trajectory_idx", Num(0))
                                    /\ x.reward = Get(ts[j], "reward", Num(0))

\* C17: a log_rollouts(R, step) that returns adds exactly len(R) rollout
\* rows with increasing ids in input order, each with the run id and the step,
\* and for each rollout as many trajectory rows as were supplied, with
\* increasing ids in the given order, each referring to its rollout's row;
\* a rollout without trajectories adds its row and no trajectory row.
C17_FanOut ==
    [][\A before \in {<<>>, <<GoodRollout>>}, after \in {<<>>, <<EmptyRollout>>},
          s \in Steps :
          (/\ lastCall'.ok
           /\ \E c \in calls' : c.rollouts = before \o <<rollout_arg>> \o after
           /\ \E r \in tx'.rollouts : r.step = s
           /\ LogRolloutsArg(before, after, s))
              => FanOut(before \o <<rollout_arg>> \o after, s)]_vars

\* one call logged a rollout of two trajectories (rewards 2 and 0) and an
\* empty one: rollout rows 1 and 2, trajectory rows 1 and 2 under rollout 1
C17_Witness ==
    /\ Get(rollout_arg, "trajectories", <<>>) = <<GoodTraj(0, 2), GoodTraj(1, 0)>>
    /\ Cardinality(calls) = 1 /\ lastCall.ok
    /\ {r.id : r \in db.rollouts} = {1, 2}
    /\ {<<x.id, x.rollout_id, x.reward>> : x \in db.trajectories}
           = {<<1, 1, Num(2)>>, <<2, 1, Num(0)>>}

\* a row without the columns AUTOINCREMENT fills
Content(row) == [f \in DOMAIN row \ {"id", "rollout_id"} |-> row[f]]

\* the rows of run w in a store, row ids aside: its run row, its step rows,
\* its rollouts in id order each with its trajectories in id order
RECURSIVE InIdOrder(_)
InIdOrder(rows) ==
    IF rows = {} THEN <<>>
    ELSE LET first == CHOOSE r \in rows : \A q \in rows : r.id <= q.id
         IN  <<first>> \o InIdOrder(rows \ {first})

RowsOf(w, t) ==
    LET rollouts == InIdOrder({r \in t.rollouts : r.run_id = w})
    IN  [runs |-> {r \in t.runs : r.id = w},
         steps |-> {Content(r) : r \in {q \in t.steps : q.run_id = w}},
         rollouts |->
            [i \in 1..Len(rollouts) |->
                [row |-> Content(rollouts[i]),
                 trajectories |->
                    LET mine == InIdOrder(TrajectoriesOf(t, rollouts[i].id))
                    IN  [j \in 1..Len(mine) |-> Content(mine[j])]]]]

\* C18: with two logger instances writing to one store in any interleaving
\* of their calls, the committed rows of each run are those its logger alone
\* would have committed (row ids aside), and every trajectory row refers to a
\* rollout row.
C18_WritersIndependent ==
    /\ \A w \in RunIds : RowsOf(w, db) = RowsOf(w, alone[w].db)
    /\ \A x \in db.trajectories : \E r \in db.rollouts : r.id = x.rollout_id

\* the fields of the client and of its store that a call can change
ClientState(c) == [db |-> c.db, tx |-> c.tx, conn |-> c.conn, run_id |-> c.run_id]

\* C19: log_step and log_rollout called on a client with no active run raise
\* RuntimeError and leave the store, the connection and the client's run as
\* they were; end_run called with no active run returns and changes nothing.
C19_RequiresActiveRun ==
    [][ /\ (client'.op \in {"log_step", "log_rollout"} /\ client.run_id = NoRun)
            => /\ client'.raised = "RuntimeError"
               /\ ClientState(client') = ClientState(client)
        /\ (client'.op = "end_run" /\ client.run_id = NoRun)
            => /\ client'.raised = NoError
               /\ ClientState(client') = ClientState(client) ]_vars

\* a log_step after end_run: the run is ended and the call has raised
C19_Witness ==
    /\ client.op = "log_step"
    /\ client.raised = "RuntimeError"
    /\ client.run_id = NoRun
    /\ \E r \in client.db.runs : r.ended_at # None

\* the run `id` is in the store with its end timestamp set
Ended(id) == \E r \in client.db.runs : r.id = id /\ r.ended_at # None

\* C20: once the with statement of tviz_sweep has been left, by a body that
\* returned or one that raised, the run the sweep started has its end
\* timestamp and the connection is closed; once the with statement of a
\* TvizClient has been left, the run active at the end of the body has its
\* end timestamp and the connection is closed.
C20_AlwaysFinalises ==
    client.phase = "exited" =>
        /\ ~client.conn
        /\ client.run_id = NoRun
        /\ client.mode = "sweep" => Ended(client.sweep_run)
        /\ (client.mode = "with" /\ client.exit_run # NoRun
                /\ \E r \in client.db.runs : r.id = client.exit_run)
             => Ended(client.exit_run)

\* the same for the bodies that call no start_run
C20_FinalisesUnlessRestarted ==
    (client.phase = "exited" /\ ~client.restarted) =>
        /\ ~client.conn
        /\ client.run_id = NoRun
        /\ client.tx = client.db
        /\ client.mode = "sweep" => Ended(client.sweep_run)

\* the keys that can fill column c in the order the claim gives: each name
\* of the column in turn, bare and then under each prefix
PriorityOrder ==
    [c \in Columns |->
        LET f == CHOOSE i \in 1..Len(Fields) : Fields[i].col = c
            ks == Fields[f].keys
            width == Len(Prefixes) + 1
        IN  [i \in 1..(Len(ks) * width) |->
                LET k == ks[((i - 1) \div width) + 1]
                    p == (i - 1) % width
                IN  IF p = 0 THEN k ELSE Prefixes[p] \o k]] @@ <<>>

\* the places in an order whose key the mapping m has
PresentIn(order, m) == {i \in 1..Len(order) : order[i] \in DOMAIN m}

\* C21: for each canonical column the written row holds the value of the
\* first key of the mapping in the column's priority order (each name in
\* declared order, bare and then under env/all/, optim/, by_group/); that
\* key alone is removed, and every other key of the mapping that names the
\* column is in the overflow bag with its value; a column no key names holds
\* nothing.
C21_NormalizerPriority ==
    \A r \in db.steps \cup tx.steps : \A c \in Columns :
        LET order == PriorityOrder[c]
            present == PresentIn(order, metrics_arg)
        IN  IF present = {} THEN r[c] = None
            ELSE LET first == CHOOSE i \in present : \A j \in present : i <= j
                 IN  /\ r[c] = StoredAs(c, metrics_arg[order[first]])
                     /\ r.extras.null \/ order[first] \notin DOMAIN r.extras.json
                     /\ \A i \in present \ {first} :
                           InExtras(r, order[i], metrics_arg[order[i]]) = 1

\* {"env/all/reward_mean": 0.5, reward: 0.2, "optim/lr": 1} was logged: the
\* prefixed first name won over the bare second name, which is in the bag
C21_Witness ==
    /\ metrics_arg = ("env/all/reward_mean" :> Frac(1, 2)) @@ ("reward" :> Frac(1, 5))
                        @@ ("optim/lr" :> Num(1))
    /\ \E r \in db.steps :
          /\ r.reward_mean = Frac(1, 2)
          /\ r.learning_rate = Num(1)
          /\ r.extras = [null |-> FALSE, json |-> [reward |-> Frac(1, 5)]]

\* the columns of steps as the constructor's script leaves them, before the
\* migrations
StepsBefore(sch) ==
    IF "steps" \in DOMAIN sch.cols THEN sch.cols["steps"] ELSE StepsColumns

\* the migrations that have to write, up to and including the first one of
\* them that finds the store locked (all of them when none does)
Blocked(before, locks) ==
    {i \in 1..Len(MigratedColumns) : MigratedColumns[i] \notin before /\ locks[i]}

\* C22: in a logger's constructor, a migration whose column is already there
\* counts as done and the migrations after it still run: with no other
\* failure the constructor returns and steps has every migrated column and
\* no column less than before.  A migration that fails because the store is
\* locked makes the constructor raise that error; the migrations before it
\* are kept and those after it are not run.
C22_MigrationErrors ==
    [][ (Len(starts') > Len(starts) /\ starts'[Len(starts')].who = "logger") =>
          LET e == starts'[Len(starts')]
              before == StepsBefore(schema)
              blocked == Blocked(before, e.locks)
              after == schema'.cols["steps"]
          IN  IF blocked = {}
              THEN /\ e.error = ""
                   /\ after = before \cup {MigratedColumns[i] :
                                              i \in 1..Len(MigratedColumns)}
              ELSE LET stop == CHOOSE i \in blocked : \A j \in blocked : i <= j
                   IN  /\ e.error = "database is locked"
                       /\ after = before \cup {MigratedColumns[i] : i \in 1..(stop - 1)}
      ]_vars

\* a constructor returned on a store whose steps table had the first
\* migrated column and not the second: the first ALTER TABLE failed as a
\* duplicate and the second one added its column
C22_Witness ==
    /\ Len(starts) >= 3
    /\ starts[1].who = "client"
    /\ starts[2].who = "logger" /\ starts[2].locks = <<FALSE, TRUE>>
    /\ starts[2].error = "database is locked"
    /\ starts[3].who = "logger" /\ starts[3].error = ""
    /\ {MigratedColumns[i] : i \in 1..Len(MigratedColumns)} \subseteq schema.cols["steps"]

\* C23: total_ac_tokens and total_turns hold a whole number when the mapping
\* has the key with a value that is not zero, namely the value with its
\* fraction cut off, and hold nothing when the key is missing or its value
\* is zero.
C23_IntegralColumns ==
    \A r \in db.steps \cup tx.steps : \A c \in IntColumns :
        IF c \in DOMAIN metrics_arg /\ metrics_arg[c] # Num(0)
        THEN LET v == metrics_arg[c]
             IN  /\ r[c].d = 1
                 /\ r[c].n * v.d <= v.n
                 /\ v.n < (r[c].n + 1) * v.d
        ELSE r[c] = None

\* {total_ac_tokens: 2.5, total_turns: 0, loss: 0.5} was logged: 2 tokens, no
\* turns
C23_Witness ==
    /\ metrics_arg = [total_ac_tokens |-> Frac(5, 2), total_turns |-> Num(0),
                      loss |-> Frac(1, 2)]
    /\ \E r \in db.steps :
          /\ r.total_ac_tokens = Num(2)
          /\ r.total_turns = None
          /\ r.loss = Frac(1, 2)

\* the run rows of store t are those of store u, but for the end timestamp
\* of this logger's row
RunsButEnded(t, u) ==
    {[r EXCEPT !.ended_at = None] : r \in MyRuns(t)}
        \cup {r \in t.runs : r.id # run_id}
    = {[r EXCEPT !.ended_at = None] : r \in MyRuns(u)}
        \cup {r \in u.runs : r.id # run_id}

\* a step leaves the step, rollout and trajectory rows of a store as they are
\* (t before the step, u after it)
ChildrenKept(t, u) ==
    /\ u.steps = t.steps
    /\ u.rollouts = t.rollouts
    /\ u.trajectories = t.trajectories

\* log_metrics and log_rollouts on a logger whose run row exists leave the
\* runs table as it is
RunsKeptByLogging ==
    /\ \A m \in LifeMetrics, s \in {Num(0), None} :
          (MyRuns(db) # {} /\ LogMetrics(m, s)) => (db'.runs = db.runs /\ tx'.runs = tx.runs)
    /\ \A b \in LifeBatches :
          (MyRuns(db) # {} /\ LogRollouts(b, Num(0)))
              => (db'.runs = db.runs /\ tx'.runs = tx.runs)

\* C24: once the run row exists, log_metrics and log_rollouts leave every
\* row of the runs table as it is; close changes nothing in the store but
\* the end timestamp of this logger's run row: the step, rollout and
\* trajectory rows and the other run rows are the same before and after.
C24_RunRowFrame ==
    [][/\ RunsKeptByLogging
       /\ Close => (RunsButEnded(db, db') /\ ChildrenKept(db, db'))]_vars

\* the same with the frame of close taken on what the connection sees
C24_FrameThroughConnection ==
    [][/\ RunsKeptByLogging
       /\ Close => (RunsButEnded(db, db') /\ RunsButEnded(tx, tx')
                       /\ (conn => ChildrenKept(tx, db')))]_vars

\* C25: log_metrics with step None returns for any mapping and leaves the
\* step, rollout and trajectory rows as they are, in the committed store and
\* in the connection's view; on a registered logger it changes nothing, on
\* an unregistered one it adds the run row with an absent configuration.
C25_NoStepNoRow ==
    [][\A m \in LifeMetrics :
         LogMetrics(m, None) =>
            /\ lastCall'.ok
            /\ ChildrenKept(db, db') /\ ChildrenKept(tx, tx')
            /\ IF config_logged THEN db' = db /\ tx' = tx
               ELSE /\ \E r \in MyRuns(db') :
                         /\ r.config.null
                         /\ db'.runs = db.runs \cup {r}
                         /\ tx'.runs = tx.runs \cup {r}
                    /\ config_logged']_vars

\* the only call so far was a log_metrics with step None: the run is
\* registered and no step row was ever written
C25_Witness ==
    /\ lastCall.op = "log_metrics" /\ lastCall.ok
    /\ tx.seq.steps = 0 /\ tx.seq.rollouts = 0
    /\ db.steps = {}
    /\ \E r \in MyRuns(db) : r.config.null

\* the rollout rows of this run in store t at a step and group index
RolloutsAt(t, step, g) ==
    {r \in t.rollouts : r.run_id = run_id /\ r.step = step /\ r.group_idx = g}

\* the rollouts of a batch that carry group index g
InBatch(b, g) == {i \in 1..Len(b) : Get(b[i], "group_idx", Num(0)) = g}

\* store u holds every rollout and trajectory row of store t, unchanged
RowsKept(t, u) ==
    /\ t.rollouts \subseteq u.rollouts
    /\ t.trajectories \subseteq u.trajectories

\* C26: log_rollouts keeps every rollout and trajectory row that was there,
\* as it was, in the committed store and in the connection's view; a call
\* that returns adds one row per rollout of the batch to the rows of the same
\* step and group index; and no operation makes the committed rollout rows
\* of the run fewer.
C26_RolloutsAppendOnly ==
    [][/\ \A b \in LifeBatches :
            LogRollouts(b, Num(0)) =>
               /\ RowsKept(db, db') /\ RowsKept(tx, tx')
               /\ lastCall'.ok =>
                     \A g \in {Num(0), Num(1)} :
                        Cardinality(RolloutsAt(db', Num(0), g))
                            = Cardinality(RolloutsAt(tx, Num(0), g))
                                  + Cardinality(InBatch(b, g))
       /\ Cardinality({r \in db.rollouts : r.run_id = run_id})
              <= Cardinality({r \in db'.rollouts : r.run_id = run_id})]_vars

\* the same rollout was logged twice at step 0: two committed rows with the
\* same step and group index, each with its two trajectories
C26_Witness ==
    /\ lastCall.op = "log_rollouts" /\ lastCall.ok
    /\ Cardinality(RolloutsAt(db, Num(0), Num(0))) = 2
    /\ \A r \in RolloutsAt(db, Num(0), Num(0)) :
          Cardinality(TrajectoriesOf(db, r.id)) = 2

\* the canonical values and the overflow bag of a step row
RowContent(r) == [c \in Columns \cup {"extras"} |-> r[c]]

\* C27: a log_metrics call leaves the mapping the caller passed with the
\* keys and values it had, and the step rows written from one mapping
\* object, at whatever steps, hold the same canonical values and the same
\* overflow bag.
C27_CallerMappingKept ==
    /\ [](\A r, q \in db.steps \cup tx.steps : RowContent(r) = RowContent(q))
    /\ [][\A s \in StepArgs : LogMetricsArg(s) => metrics_arg' = metrics_arg]_vars

\* one mapping with a canonical key, a prefixed one and an overflow key was
\* logged at steps 0 and 1
C27_Witness ==
    /\ metrics_arg = ("reward" :> Frac(1, 2)) @@ ("env/all/loss" :> Num(2))
                        @@ ("custom_x" :> Num(0))
    /\ \E r, q \in db.steps :
          /\ r.step = Num(0) /\ q.step = Num(1)
          /\ r.reward_mean = Frac(1, 2) /\ r.loss = Num(2)
          /\ r.extras = [null |-> FALSE, json |-> [custom_x |-> Num(0)]]

\* the column a key of the mapping is stored in, when it has one
ClientColumnOf ==
    [kl |-> "kl_divergence", lr |-> "learning_rate"] @@ [c \in ClientColumns |-> c]

\* the step row holds value v for key k, in k's column or in the overflow bag
StoredIn(row, k, v) ==
    \/ k \in DOMAIN ClientColumnOf /\ row[ClientColumnOf[k]] = v
    \/ ~row.extras.null /\ k \in DOMAIN row.extras.json /\ row.extras.json[k] = v

\* C28: a log_step call that returns has stored the value of every key of
\* its mapping, in the key's canonical column or in extras, also when the
\* mapping has a canonical name and its alias together.
C28_NothingDropped ==
    [][\A m \in AliasMetrics :
          ClientLogStep(Num(0), m) /\ client'.raised = NoError
          => \E r \in client'.db.steps :
                /\ r.run_id = client'.run_id /\ r.step = Num(0)
                /\ \A k \in DOMAIN m : StoredIn(r, k, m[k])]_vars

\* a mapping that names a metric twice, by its canonical name and its alias
NamedTwice(m) ==
    \/ {"kl_divergence", "kl"} \subseteq DOMAIN m
    \/ {"learning_rate", "lr"} \subseteq DOMAIN m

\* what of C28 holds: nothing is dropped from a mapping that names no metric
\* twice
C28_NothingDroppedUnlessNamedTwice ==
    [][\A m \in AliasMetrics :
          ClientLogStep(Num(0), m) /\ client'.raised = NoError /\ ~NamedTwice(m)
          => \E r \in client'.db.steps :
                /\ r.run_id = client'.run_id /\ r.step = Num(0)
                /\ \A k \in DOMAIN m : StoredIn(r, k, m[k])]_vars

\* the runs of the client's store that have no end timestamp
Unended(t) == {r \in t.runs : r.ended_at = None}

\* C29: whatever the client has been called with, at most one of the runs it
\* started has no end timestamp, and that one is the active run.
C29_OneOpenRun ==
    /\ Cardinality(Unended(client.db)) <= 1
    /\ \A r \in Unended(client.db) : r.id = client.run_id

\* what of C29 holds: a client whose every start_run found no run active
\* has no run without end timestamp but the active one
C29_OneOpenRunUnlessRestarted ==
    (client.mode = "plain" /\ client.uuids <= 1) =>
        /\ Cardinality(Unended(client.db)) <= 1
        /\ \A r \in Unended(client.db) : r.id = client.run_id \/ ~client.conn

\* a rollout row of store t and its trajectory rows, without the run id and
\* the row ids
RolloutContent(t, r) ==
    [row |-> [f \in DOMAIN r \ {"id", "run_id"} |-> r[f]],
     trajectories |-> {[f \in DOMAIN x \ {"id", "rollout_id"} |-> x[f]]
                        : x \in {y \in t.trajectories : y.rollout_id = r.id}}]

Persisted(t) == {RolloutContent(t, r) : r \in t.rollouts}

\* the same without the aggregates
WithoutAggregates(content) ==
    [content EXCEPT !.row = [f \in DOMAIN @ \ {"mean_reward", "best_reward"} |-> @[f]]]

\* both paths have been given the caller's rollout at step 0
BothLogged ==
    /\ lastCall.op = "log_rollouts"
    /\ client.op = "log_rollout" /\ client.raised # "RuntimeError"

\* C30: given the same raw rollout at the same step, TvizLogger.log_rollouts
\* and TvizClient.log_rollout leave the same rollout rows and trajectory
\* rows in their stores, up to the run id and the row ids.
C30_PathsAgree == BothLogged => Persisted(db) = Persisted(client.db)

\* what of C30 holds: when both calls returned, the rows agree in every
\* field but mean_reward and best_reward
C30_PathsAgreeBesideAggregates ==
    (BothLogged /\ lastCall.ok /\ client.raised = NoError)
        => {WithoutAggregates(x) : x \in Persisted(db)}
             = {WithoutAggregates(x) : x \in Persisted(client.db)}

TypeOK ==
    /\ conn \in BOOLEAN
    /\ (~conn => tx = db)
=============================================================================
